---------------------------- MODULE Spec2Model ----------------------------
(***************************************************************************)
(* A model of rust-thanos: the region-file (.mca) reader and writer, the   *)
(* region entry, the InhabitedTime scanner, the keep-predicates and the    *)
(* per-dimension processing loop of world::run.                            *)
(*                                                                         *)
(* Files are byte arrays.  A byte array is the record [len, nz]: its       *)
(* length and the function from the offsets of its non-zero bytes to those *)
(* bytes (every other offset below len holds 0).  Two byte arrays are      *)
(* equal exactly when the records are equal.  Short byte strings (slot     *)
(* headers, payloads) are sequences of 0..255.                             *)
(***************************************************************************)
EXTENDS Integers, Sequences, FiniteSets, TLC

VARIABLES
    scan_data,      \* SpecScan: the payload handed to find_inhabited_fast
    scan_res,       \* SpecScan: [done], and the Option<i64> returned as res
    w_src,          \* SpecWriter: the file the appended entries are read from
    w,              \* SpecWriter: the McaWriter (its file and its tables)
    w_log,          \* SpecWriter: the appends done, in order
    w_final,        \* SpecWriter: finalize has returned Ok
    overflow_checks,\* the build panics on integer overflow (debug) or wraps
    lz4_case,       \* SpecLz4: the payload, the frame built of it, the stream
    lz4_res,        \* SpecLz4: [done], and the Result of decode_lz4_blocks as res
    c_pos,          \* SpecCursor: open file description -> its byte cursor
    c_ops,          \* SpecCursor: the two entries, their operation and its step
    faults,         \* Spec: the I/O operations that fail in this run
    args,           \* Spec: the arguments of run
    files,          \* Spec: the files on disk, path -> bytes
    dirs,           \* Spec: the directories on disk
    chunks_dat,     \* Spec: dimension -> its data/chunks.dat
    main_pc,        \* Spec: where run is
    tasks,          \* Spec: the dimensions run found
    total_chunks,   \* Spec: count_total_chunks
    wk,             \* Spec: dimension -> the worker that processes it
    processed_regions, processed_chunks, removed_total, last_pct,
                    \* Spec: the shared atomic counters
    printed,        \* Spec: the percent lines printed, in order
    log,            \* Spec: what was decided for each region entry
    input0          \* Spec: the input files as they were before the call

scanVars == <<scan_data, scan_res>>
writerVars == <<w_src, w, w_log, w_final>>
lz4Vars == <<lz4_case, lz4_res>>
cursorVars == <<c_pos, c_ops>>
counterVars == <<processed_regions, processed_chunks, removed_total, last_pct, printed>>
worldVars == <<args, files, dirs, chunks_dat, main_pc, tasks, total_chunks, wk,
               processed_regions, processed_chunks, removed_total, last_pct,
               printed, log, input0>>
vars == <<scanVars, writerVars, lz4Vars, cursorVars, overflow_checks, faults, worldVars>>

---------------------------------------------------------------------------
(* Numbers of the formats *)

SECTOR == 4096
SLOTS == 1024
HEADER_BYTES == 8192

Min(a, b) == IF a < b THEN a ELSE b
Max(a, b) == IF a < b THEN b ELSE a

---------------------------------------------------------------------------
(* Byte arrays *)

EmptyBytes == [len |-> 0, nz |-> <<>>]

\* The byte at offset i of byte array b (i < b.len).
ByteAt(b, i) == IF i \in DOMAIN b.nz THEN b.nz[i] ELSE 0

\* n zero bytes.
Zeros(n) == [len |-> n, nz |-> <<>>]

\* A sequence of bytes as a byte array.
FromSeq(s) ==
    [len |-> Len(s),
     nz  |-> [i \in {j - 1 : j \in {k \in 1..Len(s) : s[k] # 0}} |-> s[i + 1]]]

\* The bytes b[start .. start+n) of a byte array, clipped to its end.
Slice(b, start, n) ==
    LET m == IF start >= b.len THEN 0 ELSE Min(n, b.len - start)
        dom == {k \in DOMAIN b.nz : k >= start /\ k < start + m}
    IN  [len |-> m, nz |-> [i \in {k - start : k \in dom} |-> b.nz[i + start]]]

\* The same bytes as a sequence (for short reads).
SliceSeq(b, start, n) ==
    LET m == IF start >= b.len THEN 0 ELSE Min(n, b.len - start)
    IN  [i \in 1..m |-> ByteAt(b, start + i - 1)]

\* File::write_all at offset pos: overwrites, and extends the file (a gap
\* between the old end and pos reads as zeros).
WriteAt(f, pos, b) ==
    LET keep == {k \in DOMAIN f.nz : k < pos \/ k >= pos + b.len}
        new  == {pos + j : j \in DOMAIN b.nz}
    IN  [len |-> Max(f.len, pos + b.len),
         nz  |-> [i \in keep \cup new |->
                    IF i \in new THEN b.nz[i - pos] ELSE f.nz[i]]]

\* u32::from_be_bytes / u16::from_be_bytes on a short sequence whose value
\* fits the checker's integers.
RECURSIVE BeUnsigned(_)
BeUnsigned(s) ==
    IF s = <<>> THEN 0
    ELSE BeUnsigned(SubSeq(s, 1, Len(s) - 1)) * 256 + s[Len(s)]

\* u32::to_be_bytes
BeBytes32(v) ==
    <<(v \div 16777216) % 256, (v \div 65536) % 256, (v \div 256) % 256, v % 256>>

\* i8 from the byte that stores it (buf[4] as i8).
AsI8(b) == IF b >= 128 THEN b - 256 ELSE b

\* An i64 is held as three limbs, v = h * 2^48 + m * 2^24 + l, with h the
\* signed value of the top two bytes: every 64-bit value has exactly one
\* such record.
LIMB == 256 * 256 * 256

I64(h, m, l) == [h |-> h, m |-> m, l |-> l]

\* The i64 of an integer the checker can hold (floor division sign-extends).
I64Of(v) == I64(IF v < 0 THEN 0 - 1 ELSE 0, (v \div LIMB) % LIMB, v % LIMB)

\* a >= b on i64.
I64Ge(a, b) ==
    \/ a.h > b.h
    \/ a.h = b.h /\ a.m > b.m
    \/ a.h = b.h /\ a.m = b.m /\ a.l >= b.l

\* BigEndian::read_i64: the two's-complement value of 8 bytes.
read_i64(s) ==
    I64((IF s[1] >= 128 THEN s[1] - 256 ELSE s[1]) * 256 + s[2],
        BeUnsigned(SubSeq(s, 3, 5)),
        BeUnsigned(SubSeq(s, 6, 8)))

\* i64::to_be_bytes
to_be_bytes_i64(v) ==
    LET top == IF v.h < 0 THEN v.h + 65536 ELSE v.h
    IN  <<top \div 256, top % 256,
          v.m \div 65536, (v.m \div 256) % 256, v.m % 256,
          v.l \div 65536, (v.l \div 256) % 256, v.l % 256>>

None == [some |-> FALSE]
Some(v) == [some |-> TRUE, v |-> v]

Ok(v) == [ok |-> TRUE, v |-> v]
Err(e) == [ok |-> FALSE, panic |-> FALSE, err |-> e]
\* An arithmetic overflow in a build with overflow checks: the thread panics.
Panic(e) == [ok |-> FALSE, panic |-> TRUE, err |-> e]

---------------------------------------------------------------------------
(* patterns/inhabited.rs: the scanner *)

LONG_TAG == 4

\* b"InhabitedTime"
InhabitedName == <<73, 110, 104, 97, 98, 105, 116, 101, 100, 84, 105, 109, 101>>

\* A scanner that writes the name's length one too large.
ScanPrefix_LenPlusOne ==
    <<LONG_TAG>> \o <<(Len(InhabitedName) + 1) \div 256, (Len(InhabitedName) + 1) % 256>>
                 \o InhabitedName

\* prefix: the tag byte, the name's length as a big-endian u16, the name.
ScanPrefix ==
    <<LONG_TAG>> \o <<Len(InhabitedName) \div 256, Len(InhabitedName) % 256>>
                 \o InhabitedName

\* The while loop of find_inhabited_fast, from position i (0-based).
RECURSIVE ScanFrom(_, _)
ScanFrom(data, i) ==
    LET plen == Len(ScanPrefix) IN
    IF i + plen + 8 > Len(data) THEN None
    ELSE IF SubSeq(data, i + 1, i + plen) = ScanPrefix
         THEN Some(read_i64(SubSeq(data, i + plen + 1, i + plen + 8)))
         ELSE ScanFrom(data, i + 1)

find_inhabited_fast(data) ==
    IF Len(data) < Len(ScanPrefix) + 8 THEN None ELSE ScanFrom(data, 0)

---------------------------------------------------------------------------
(* mca/entry.rs: the entry handle.  An entry is the record                 *)
(* [start, length, index, modified, region_x, region_z]; the operations    *)
(* take the content f of the file the entry's handle is open on.           *)

McaEntry(start, length, index, modified, region_x, region_z) ==
    [start |-> start, length |-> length, index |-> index,
     modified |-> modified, region_x |-> region_x, region_z |-> region_z]

x_pos(e) == e.index % 32
z_pos(e) == e.index \div 32
global_x(e) == e.region_x * 32 + x_pos(e)
global_z(e) == e.region_z * 32 + z_pos(e)

\* The match on the method byte; "" stands for the rejected codes.
CompressionOf(method) ==
    CASE method = 1 -> "Gzip"
      [] method = 2 -> "Zlib"
      [] method = 3 -> "Raw"
      [] method = 4 -> "Lz4"
      [] method = 127 -> "Custom"
      [] method = 0 - 127 -> "ExternalGzip"
      [] method = 0 - 126 -> "ExternalZlib"
      [] method = 0 - 125 -> "ExternalRaw"
      [] method = 0 - 124 -> "ExternalLz4"
      [] OTHER -> ""

\* The length of String::from_utf8_lossy(s): an ASCII byte stays one byte,
\* a byte that is not part of valid UTF-8 becomes U+FFFD (three bytes).
\* The names of the modelled inputs hold ASCII bytes and lone bytes >= 0xF8.
RECURSIVE LossyLen(_)
LossyLen(s) ==
    IF s = <<>> THEN 0
    ELSE (IF s[1] < 128 THEN 1 ELSE 3) + LossyLen(Tail(s))

\* read_exact(n) at cursor pos: the n bytes, or the error at end of file.
ReadExact(f, pos, n) ==
    IF n > 0 /\ pos + n > f.len THEN Err("failed to fill whole buffer")
    ELSE Ok(SliceSeq(f, pos, n))

\* read_header: Ok([len, cm, custom, pos]) where custom is the Option of
\* the codec name's String length and pos is where the cursor is left.
read_header(f, e) ==
    LET buf == ReadExact(f, e.start, 5) IN
    IF ~buf.ok THEN buf ELSE
    LET len == BeUnsigned(SubSeq(buf.v, 1, 4))
        cm  == CompressionOf(AsI8(buf.v[5]))
    IN
    IF cm = "" THEN Err("unknown compression")
    ELSE IF cm # "Custom"
    THEN Ok([len |-> len, cm |-> cm, custom |-> None, pos |-> e.start + 5])
    ELSE
    LET lbuf == ReadExact(f, e.start + 5, 2) IN
    IF ~lbuf.ok THEN lbuf ELSE
    LET n == BeUnsigned(lbuf.v)
        s == ReadExact(f, e.start + 7, n)
    IN
    IF ~s.ok THEN s
    ELSE Ok([len |-> len, cm |-> cm, custom |-> Some(LossyLen(s.v)),
             pos |-> e.start + 7 + n])

\* A copy that leaves out the 4 bytes of the length word in the count.
serialized_bytes_Short(f, e) ==
    LET h == read_header(f, e) IN
    IF ~h.ok THEN h ELSE Ok(Slice(f, e.start, h.v.len))

\* serialized_bytes: the 4 + len bytes at start (take(total).read_to_end
\* stops at the end of the file).
serialized_bytes(f, e) ==
    LET h == read_header(f, e) IN
    IF ~h.ok THEN h ELSE Ok(Slice(f, e.start, 4 + h.v.len))

\* data_bytes: Ok([cm, data]).  For the custom method the 2-byte length and
\* the name are read a second time, from the cursor read_header left (which
\* is already past the name).  data_len is computed in usize: below zero it
\* panics in a build with overflow checks and wraps otherwise, and take()
\* of the wrapped length reads to the end of the file.
DataBytesAfter(f, e, h) ==
    IF ~h.ok THEN h ELSE
    LET isCustom == h.v.cm = "Custom"
        lbuf == IF isCustom THEN ReadExact(f, h.v.pos, 2) ELSE Ok(<<>>)
    IN
    IF ~lbuf.ok THEN lbuf ELSE
    LET n == IF isCustom THEN BeUnsigned(lbuf.v) ELSE 0
        s == IF isCustom THEN ReadExact(f, h.v.pos + 2, n) ELSE Ok(<<>>)
    IN
    IF ~s.ok THEN s ELSE
    LET pos == e.start + 5 + (IF isCustom THEN 2 + n ELSE 0)
        data_len == h.v.len - 1 - (IF isCustom THEN 2 + h.v.custom.v ELSE 0)
    IN
    IF data_len < 0 /\ overflow_checks
    THEN Panic("attempt to subtract with overflow")
    ELSE Ok([cm |-> h.v.cm,
             data |-> SliceSeq(f, pos, IF data_len < 0 THEN f.len ELSE data_len)])

\* data_bytes, after read_header.
data_bytes(f, e) == DataBytesAfter(f, e, read_header(f, e))

\* is_external
ExternalMethods == {"ExternalGzip", "ExternalZlib", "ExternalRaw", "ExternalLz4"}

is_external(f, e) ==
    LET h == read_header(f, e) IN
    IF ~h.ok THEN h ELSE Ok(h.v.cm \in ExternalMethods)

---------------------------------------------------------------------------
(* 32-bit words for the checksums: a u32 is the record [h, l] of its two   *)
(* 16-bit halves.                                                          *)

HALF == 256 * 256

U32(h, l) == [h |-> h, l |-> l]
U32Of(n) == U32((n \div HALF) % HALF, n % HALF)

RECURSIVE Pow2(_)
Pow2(n) == IF n = 0 THEN 1 ELSE 2 * Pow2(n - 1)

RECURSIVE XorN(_, _, _)
XorN(a, b, n) ==
    IF n = 0 THEN 0
    ELSE ((a + b) % 2) + 2 * XorN(a \div 2, b \div 2, n - 1)

Xor32(a, b) == U32(XorN(a.h, b.h, 16), XorN(a.l, b.l, 16))

Add32(a, b) ==
    U32((a.h + b.h + ((a.l + b.l) \div HALF)) % HALF, (a.l + b.l) % HALF)

\* The four bytes of a word, least significant first.
LeBytes32(a) == <<a.l % 256, a.l \div 256, a.h % 256, a.h \div 256>>
FromLe32(s) == U32(s[3] + 256 * s[4], s[1] + 256 * s[2])

\* wrapping_mul: schoolbook product of the bytes, kept modulo 2^32.
Mul32(a, b) ==
    LET x == LeBytes32(a)
        y == LeBytes32(b)
        c1 == x[1] * y[1]
        c2 == x[1] * y[2] + x[2] * y[1] + (c1 \div 256)
        c3 == x[1] * y[3] + x[2] * y[2] + x[3] * y[1] + (c2 \div 256)
        c4 == x[1] * y[4] + x[2] * y[3] + x[3] * y[2] + x[4] * y[1] + (c3 \div 256)
    IN  FromLe32(<<c1 % 256, c2 % 256, c3 % 256, c4 % 256>>)

\* a >> r, 0 < r <= 16
Shr32(a, r) ==
    IF r = 16 THEN U32(0, a.h)
    ELSE U32(a.h \div Pow2(r), (a.l \div Pow2(r)) + (a.h % Pow2(r)) * Pow2(16 - r))

\* a.rotate_left(r), 0 < r < 32
Rotl32(a, r) ==
    LET b == IF r >= 16 THEN U32(a.l, a.h) ELSE a
        k == r % 16
    IN  IF k = 0 THEN b
        ELSE U32(((b.h * Pow2(k)) % HALF) + (b.l \div Pow2(16 - k)),
                 ((b.l * Pow2(k)) % HALF) + (b.h \div Pow2(16 - k)))

---------------------------------------------------------------------------
(* xxhash_rust::xxh32::xxh32, as called by lz4_checksum *)

PRIME32_1 == U32(40503, 31153)    \* 0x9E3779B1
PRIME32_2 == U32(34283, 51831)    \* 0x85EBCA77
PRIME32_3 == U32(49842, 44605)    \* 0xC2B2AE3D
PRIME32_4 == U32(10196, 60207)    \* 0x27D4EB2F
PRIME32_5 == U32(5718, 26545)     \* 0x165667B1

Neg32(a) == Add32(U32(HALF - 1 - a.h, HALF - 1 - a.l), U32(0, 1))

XxhRound(acc, word) ==
    Mul32(Rotl32(Add32(acc, Mul32(word, PRIME32_2)), 13), PRIME32_1)

\* The 16-byte stripes: v is <<v1, v2, v3, v4>>, p the 1-based position.
RECURSIVE XxhStripes(_, _, _)
XxhStripes(s, p, v) ==
    IF p + 15 > Len(s) THEN [v |-> v, p |-> p]
    ELSE XxhStripes(s, p + 16,
            [i \in 1..4 |->
                XxhRound(v[i], FromLe32(SubSeq(s, p + 4 * (i - 1), p + 4 * i - 1)))])

RECURSIVE XxhWords(_, _, _)
XxhWords(s, p, h) ==
    IF p + 3 > Len(s) THEN [h |-> h, p |-> p]
    ELSE XxhWords(s, p + 4,
            Mul32(Rotl32(Add32(h, Mul32(FromLe32(SubSeq(s, p, p + 3)), PRIME32_3)), 17),
                  PRIME32_4))

RECURSIVE XxhTail(_, _, _)
XxhTail(s, p, h) ==
    IF p > Len(s) THEN h
    ELSE XxhTail(s, p + 1,
            Mul32(Rotl32(Add32(h, Mul32(U32(0, s[p]), PRIME32_5)), 11), PRIME32_1))

XxhAvalanche(h) ==
    LET a == Xor32(h, Shr32(h, 15))
        b == Mul32(a, PRIME32_2)
        c == Xor32(b, Shr32(b, 13))
        d == Mul32(c, PRIME32_3)
    IN  Xor32(d, Shr32(d, 16))

xxh32(s, seed) ==
    LET st == XxhStripes(s, 1,
                <<Add32(Add32(seed, PRIME32_1), PRIME32_2), Add32(seed, PRIME32_2),
                  seed, Add32(seed, Neg32(PRIME32_1))>>)
        h0 == IF Len(s) >= 16
              THEN Add32(Add32(Rotl32(st.v[1], 1), Rotl32(st.v[2], 7)),
                         Add32(Rotl32(st.v[3], 12), Rotl32(st.v[4], 18)))
              ELSE Add32(seed, PRIME32_5)
        h1 == Add32(h0, U32Of(Len(s)))
        wd == XxhWords(s, st.p, h1)
    IN  XxhAvalanche(XxhTail(s, wd.p, wd.h))

---------------------------------------------------------------------------
(* mca/entry.rs: the framed-block (LZ4Block) codec *)

\* b"LZ4Block"
LZ4_MAGIC == <<76, 90, 52, 66, 108, 111, 99, 107>>
LZ4_HEADER_LEN == 8 + 1 + 4 + 4 + 4
LZ4_XXHASH_SEED == U32(38727, 45708)    \* 0x9747b28c

\* xxh32(data, seed) & 0x0FFFFFFF
lz4_checksum(data) ==
    LET x == xxh32(data, LZ4_XXHASH_SEED) IN U32(x.h % 4096, x.l)

\* LittleEndian::read_u32 as usize, for lengths the checker can hold.
RECURSIVE LeUnsigned(_)
LeUnsigned(s) == IF s = <<>> THEN 0 ELSE s[1] + 256 * LeUnsigned(Tail(s))

\* A length byte run of the LZ4 block format: 255-bytes add up until a byte
\* below 255 ends the run.  [ok, n, p].
RECURSIVE Lz4LenExt(_, _, _)
Lz4LenExt(inp, p, n) ==
    IF p > Len(inp) THEN [ok |-> FALSE, n |-> n, p |-> p]
    ELSE IF inp[p] = 255 THEN Lz4LenExt(inp, p + 1, n + 255)
    ELSE [ok |-> TRUE, n |-> n + inp[p], p |-> p + 1]

\* Copy n bytes from offset back in out, one at a time (the ranges overlap).
RECURSIVE Lz4Copy(_, _, _)
Lz4Copy(out, offset, n) ==
    IF n = 0 THEN out
    ELSE Lz4Copy(Append(out, out[Len(out) - offset + 1]), offset, n - 1)

\* lz4_flex::block::decompress(input, size): the sequences of one block,
\* from position p, into a buffer of `size` bytes.
RECURSIVE Lz4Sequences(_, _, _, _)
Lz4Sequences(inp, p, out, size) ==
    IF p > Len(inp) THEN Err("expected another byte") ELSE
    LET token == inp[p]
        lit0 == token \div 16
        le == IF lit0 = 15 THEN Lz4LenExt(inp, p + 1, 15)
              ELSE [ok |-> TRUE, n |-> lit0, p |-> p + 1]
    IN
    IF ~le.ok THEN Err("expected another byte")
    ELSE IF le.p + le.n - 1 > Len(inp) THEN Err("literal out of bounds")
    ELSE IF Len(out) + le.n > size THEN Err("output too small")
    ELSE
    LET out1 == out \o SubSeq(inp, le.p, le.p + le.n - 1)
        q == le.p + le.n
    IN
    IF q > Len(inp) THEN Ok(out1)
    ELSE IF q + 1 > Len(inp) THEN Err("expected another byte")
    ELSE
    LET offset == inp[q] + 256 * inp[q + 1]
        m0 == token % 16
        me == IF m0 = 15 THEN Lz4LenExt(inp, q + 2, 15)
              ELSE [ok |-> TRUE, n |-> m0, p |-> q + 2]
    IN
    IF ~me.ok THEN Err("expected another byte")
    ELSE IF offset = 0 \/ offset > Len(out1) THEN Err("offset out of bounds")
    ELSE IF Len(out1) + me.n + 4 > size THEN Err("output too small")
    ELSE Lz4Sequences(inp, me.p, Lz4Copy(out1, offset, me.n + 4), size)

\* lz4_flex::block::decompress_size_prepended of the size and the block.
lz4_decompress(block, size) ==
    IF block = <<>> THEN Err("expected another byte")
    ELSE Lz4Sequences(block, 1, <<>>, size)

\* A decoder that does not compare the checksum.
RECURSIVE DecodeFrom_NoCheck(_, _, _)
DecodeFrom_NoCheck(inp, i, out) ==
    IF i + LZ4_HEADER_LEN > Len(inp)
    THEN IF i # Len(inp) THEN Err("dangling LZ4 bytes") ELSE Ok(out)
    ELSE
    IF SubSeq(inp, i + 1, i + 8) # LZ4_MAGIC THEN Err("invalid LZ4 magic") ELSE
    LET token == inp[i + 9]
        method == (token \div 16) * 16
        comp_len == LeUnsigned(SubSeq(inp, i + 10, i + 13))
        decomp_len == LeUnsigned(SubSeq(inp, i + 14, i + 17))
        start == i + LZ4_HEADER_LEN
    IN
    IF start + comp_len > Len(inp) THEN Err("LZ4 block truncated") ELSE
    LET block == SubSeq(inp, start + 1, start + comp_len)
        decoded == IF method = 16 THEN Ok(block)
                   ELSE IF method = 32 THEN lz4_decompress(block, decomp_len)
                   ELSE Err("unsupported LZ4 method")
    IN
    IF ~decoded.ok THEN decoded
    ELSE DecodeFrom_NoCheck(inp, start + comp_len, out \o decoded.v)

\* decode_lz4_blocks: the while loop from cursor i (0-based) with output out.
RECURSIVE DecodeFrom(_, _, _)
DecodeFrom(inp, i, out) ==
    IF i + LZ4_HEADER_LEN > Len(inp)
    THEN IF i # Len(inp) THEN Err("dangling LZ4 bytes") ELSE Ok(out)
    ELSE
    IF SubSeq(inp, i + 1, i + 8) # LZ4_MAGIC THEN Err("invalid LZ4 magic") ELSE
    LET token == inp[i + 9]
        method == (token \div 16) * 16
        comp_len == LeUnsigned(SubSeq(inp, i + 10, i + 13))
        decomp_len == LeUnsigned(SubSeq(inp, i + 14, i + 17))
        checksum_le == FromLe32(SubSeq(inp, i + 18, i + 21))
        start == i + LZ4_HEADER_LEN
    IN
    IF start + comp_len > Len(inp) THEN Err("LZ4 block truncated") ELSE
    LET block == SubSeq(inp, start + 1, start + comp_len)
        decoded == IF method = 16 THEN Ok(block)
                   ELSE IF method = 32 THEN lz4_decompress(block, decomp_len)
                   ELSE Err("unsupported LZ4 method")
    IN
    IF ~decoded.ok THEN decoded
    ELSE IF lz4_checksum(decoded.v) # checksum_le THEN Err("LZ4 checksum mismatch")
    ELSE DecodeFrom(inp, start + comp_len, out \o decoded.v)

decode_lz4_blocks(inp) == DecodeFrom(inp, 0, <<>>)

---------------------------------------------------------------------------
(* flate2: the zlib and gzip decoders all_data_uncompressed reads through. *)
(* The deflate streams of the modelled inputs are made of stored blocks;   *)
(* a Huffman-coded block is not decoded here and none is among the inputs. *)

\* The deflate blocks from position p (1-based): Ok([out, p]).
RECURSIVE Inflate(_, _, _)
Inflate(s, p, out) ==
    IF p > Len(s) THEN Err("unexpected end of file") ELSE
    LET bfinal == s[p] % 2
        btype == (s[p] \div 2) % 4
    IN
    IF btype # 0 THEN Err("corrupt deflate stream")
    ELSE IF p + 4 > Len(s) THEN Err("unexpected end of file")
    ELSE
    LET len == s[p + 1] + 256 * s[p + 2]
        nlen == s[p + 3] + 256 * s[p + 4]
    IN
    IF len + nlen # HALF - 1 THEN Err("corrupt deflate stream")
    ELSE IF p + 4 + len > Len(s) THEN Err("unexpected end of file")
    ELSE IF bfinal = 1
         THEN Ok([out |-> out \o SubSeq(s, p + 5, p + 4 + len), p |-> p + 5 + len])
         ELSE Inflate(s, p + 5 + len, out \o SubSeq(s, p + 5, p + 4 + len))

ADLER_MOD == HALF - 15    \* 65521

\* Adler-32 as [a, b].
RECURSIVE Adler32(_, _, _)
Adler32(s, a, b) ==
    IF s = <<>> THEN [a |-> a, b |-> b]
    ELSE Adler32(Tail(s), (a + s[1]) % ADLER_MOD, (b + ((a + s[1]) % ADLER_MOD)) % ADLER_MOD)

\* ZlibDecoder + io::copy: the 2-byte header, the blocks, the big-endian
\* Adler-32 of the output.
zlib_decode(s) ==
    IF Len(s) < 2 THEN Err("unexpected end of file")
    ELSE IF s[1] % 16 # 8 \/ s[1] \div 16 > 7 \/ (s[1] * 256 + s[2]) % 31 # 0
            \/ (s[2] \div 32) % 2 = 1
    THEN Err("corrupt deflate stream")
    ELSE
    LET r == Inflate(s, 3, <<>>) IN
    IF ~r.ok THEN r
    ELSE IF r.v.p + 3 > Len(s) THEN Err("unexpected end of file")
    ELSE
    LET ck == Adler32(r.v.out, 1, 0) IN
    IF SubSeq(s, r.v.p, r.v.p + 3)
         # <<ck.b \div 256, ck.b % 256, ck.a \div 256, ck.a % 256>>
    THEN Err("corrupt deflate stream")
    ELSE Ok(r.v.out)

CRC_POLY == U32(60856, 33568)    \* 0xEDB88320

RECURSIVE CrcBits(_, _)
CrcBits(c, n) ==
    IF n = 0 THEN c
    ELSE CrcBits(IF c.l % 2 = 1 THEN Xor32(Shr32(c, 1), CRC_POLY) ELSE Shr32(c, 1),
                 n - 1)

\* (The test on c1 makes the checker compute each word before it recurses.)
RECURSIVE CrcBytes(_, _)
CrcBytes(s, c) ==
    IF s = <<>> THEN c
    ELSE LET c1 == CrcBits(Xor32(c, U32(0, s[1])), 8)
         IN  IF c1.l >= 0 THEN CrcBytes(Tail(s), c1) ELSE c1

crc32(s) == Xor32(CrcBytes(s, U32(HALF - 1, HALF - 1)), U32(HALF - 1, HALF - 1))

\* GzDecoder + io::copy: the 10-byte header (no optional field is set in
\* the modelled inputs), the blocks, the little-endian CRC-32 and length.
gz_decode(s) ==
    IF Len(s) < 10 THEN Err("unexpected end of file")
    ELSE IF s[1] # 31 \/ s[2] # 139 \/ s[3] # 8 \/ s[4] # 0
    THEN Err("invalid gzip header")
    ELSE
    LET r == Inflate(s, 11, <<>>) IN
    IF ~r.ok THEN r
    ELSE IF r.v.p + 7 > Len(s) THEN Err("unexpected end of file")
    ELSE IF FromLe32(SubSeq(s, r.v.p, r.v.p + 3)) # crc32(r.v.out)
            \/ FromLe32(SubSeq(s, r.v.p + 4, r.v.p + 7)) # U32Of(Len(r.v.out))
    THEN Err("corrupt gzip stream does not have a matching checksum")
    ELSE Ok(r.v.out)

---------------------------------------------------------------------------
(* mca/entry.rs: all_data_uncompressed *)

\* The match on the method, on the result d of data_bytes.
Uncompressed(d) ==
    IF ~d.ok THEN d
    ELSE CASE d.v.cm = "Raw" -> Ok(d.v.data)
           [] d.v.cm = "Zlib" -> zlib_decode(d.v.data)
           [] d.v.cm = "Gzip" -> gz_decode(d.v.data)
           [] d.v.cm = "Lz4" -> decode_lz4_blocks(d.v.data)
           [] OTHER -> Ok(<<>>)

\* all_data_uncompressed: data_bytes, then the decoder of the method.
all_data_uncompressed(f, e) == Uncompressed(data_bytes(f, e))

---------------------------------------------------------------------------
(* patterns: the keep-predicates.  matches returns Ok(bool) or an error. *)

\* ListPattern::matches: coords is the sequence of (x, z) pairs.
ListPattern_matches(coords, e) ==
    Ok(\E k \in 1..Len(coords) :
          coords[k][1] = global_x(e) /\ coords[k][2] = global_z(e))

\* A pattern that removes a chunk whose value equals the threshold.
MatchesField_Strict(threshold, remove_unknown, t) ==
    IF t.some THEN Ok(I64Ge(t.v, threshold) /\ t.v # threshold)
    ELSE Ok(~remove_unknown)

\* The answer of InhabitedTimePattern on what the scanner found.
MatchesField(threshold, remove_unknown, t) ==
    IF t.some THEN Ok(I64Ge(t.v, threshold)) ELSE Ok(~remove_unknown)

\* InhabitedTimePattern::matches, on the results ext of is_external and
\* de of all_data_uncompressed (de is asked for only if ext is Ok(false)).
MatchesOn(threshold, remove_unknown, ext, de) ==
    IF ~ext.ok THEN ext
    ELSE IF ext.v THEN Ok(~remove_unknown)
    ELSE IF ~de.ok THEN de
    ELSE IF de.v = <<>> THEN Ok(~remove_unknown)
    ELSE MatchesField(threshold, remove_unknown, find_inhabited_fast(de.v))

\* InhabitedTimePattern::matches
InhabitedTimePattern_matches(threshold, remove_unknown, f, e) ==
    MatchesOn(threshold, remove_unknown, is_external(f, e), all_data_uncompressed(f, e))

---------------------------------------------------------------------------
(* mca/reader.rs *)

SlotIds == 0..(SLOTS - 1)

\* A table of SLOTS u32 values (a Vec<u32>) is the function from the
\* slots whose value is not 0 to their values.
EmptyTable == [i \in {} |-> 0]
TableGet(t, i) == IF i \in DOMAIN t THEN t[i] ELSE 0
TableSet(t, i, v) ==
    [k \in (DOMAIN t \ {i}) \cup (IF v = 0 THEN {} ELSE {i}) |->
        IF k = i THEN v ELSE t[k]]

\* The slots whose word in the table at byte `base` of f is not zero.
NonZeroWords(f, base) ==
    {(q - base) \div 4 : q \in {k \in DOMAIN f.nz : k >= base /\ k < base + 4 * SLOTS}}

\* The reader after open: no table is parsed yet.
McaReader_open(x, z) ==
    [x_pos |-> x, z_pos |-> z, parsed |-> FALSE,
     offsets |-> EmptyTable, sizes |-> EmptyTable, timestamps |-> EmptyTable]

\* The word of slot i in the table that starts at byte `base`.
TableWord(f, base, i) == SliceSeq(f, base + 4 * i, 4)

\* (v >> 8) * 4096 in u32: v >> 8 is the value of the word's first three
\* bytes.  From sector 2^20 on the product overflows.
LocOverflows(f) ==
    \E i \in NonZeroWords(f, 0) :
        BeUnsigned(SubSeq(TableWord(f, 0, i), 1, 3)) >= HALF * 16

\* McaReader::read_header on file content f.
McaReader_read_header(r, f) ==
    IF f.len < HEADER_BYTES THEN Err("failed to fill whole buffer")
    ELSE IF LocOverflows(f) /\ overflow_checks
    THEN Panic("attempt to multiply with overflow")
    ELSE LET off(i) ==
                 (BeUnsigned(SubSeq(TableWord(f, 0, i), 1, 3)) % (HALF * 16)) * SECTOR
             size(i) == TableWord(f, 0, i)[4] * SECTOR
             ts(i) == BeUnsigned(TableWord(f, SECTOR, i))
         IN  Ok([r EXCEPT
                !.parsed = TRUE,
                !.offsets = [i \in {j \in NonZeroWords(f, 0) : off(j) # 0} |-> off(i)],
                !.sizes = [i \in {j \in NonZeroWords(f, 0) : size(j) # 0} |-> size(i)],
                !.timestamps = [i \in {j \in NonZeroWords(f, SECTOR) : ts(j) # 0} |-> ts(i)]])

\* ensure
McaReader_ensure(r, f) == IF r.parsed THEN Ok(r) ELSE McaReader_read_header(r, f)

\* The elements of a finite set of numbers in ascending order.
RECURSIVE Ascending(_)
Ascending(S) ==
    IF S = {} THEN <<>>
    ELSE LET m == CHOOSE x \in S : \A y \in S : x <= y
         IN  <<m>> \o Ascending(S \ {m})

\* A reader that hands out slot i under the index of the next slot.
EntryOf_NextSlot(r, i) ==
    McaEntry(TableGet(r.offsets, i), TableGet(r.sizes, i), (i + 1) % SLOTS,
             TableGet(r.timestamps, i), r.x_pos, r.z_pos)

\* The handle of slot i: its offset, size and timestamp from the tables.
EntryOf(r, i) ==
    McaEntry(TableGet(r.offsets, i), TableGet(r.sizes, i), i,
             TableGet(r.timestamps, i), r.x_pos, r.z_pos)

\* entries, on the result en of ensure: Ok([r, entries]) with the reader
\* as ensure left it.
EntriesOf(en) ==
    IF ~en.ok THEN en
    ELSE Ok([r |-> en.v,
             entries |->
                LET used == DOMAIN en.v.offsets \cap DOMAIN en.v.sizes
                    order == Ascending(used)
                IN  [k \in 1..Len(order) |-> EntryOf(en.v, order[k])]])

\* McaReader::entries
McaReader_entries(r, f) == EntriesOf(McaReader_ensure(r, f))

\* get, on the result en of ensure: Ok([r, entry]) with entry an Option.
GetOf(en, index) ==
    IF ~en.ok THEN en
    ELSE Ok([r |-> en.v,
             entry |-> IF TableGet(en.v.offsets, index) = 0
                          \/ TableGet(en.v.sizes, index) = 0
                       THEN None ELSE Some(EntryOf(en.v, index))])

\* McaReader::get
McaReader_get(r, f, index) == GetOf(McaReader_ensure(r, f), index)

---------------------------------------------------------------------------
(* mca/writer.rs *)

\* x as u32
AsU32(x) == ((x \div HALF) % HALF) * HALF + (x % HALF)

\* A writer that leaves a sector free behind the two tables.
McaWriter_open_Late ==
    [file |-> Zeros(HEADER_BYTES), data_offset |-> HEADER_BYTES + SECTOR,
     offsets |-> EmptyTable, sizes |-> EmptyTable, timestamps |-> EmptyTable]

\* open: the file holds 8192 zero bytes, the data cursor is behind them.
McaWriter_open ==
    [file |-> Zeros(HEADER_BYTES), data_offset |-> HEADER_BYTES,
     offsets |-> EmptyTable, sizes |-> EmptyTable, timestamps |-> EmptyTable]

\* A write_entry that leaves out the zero padding.
Appended_NoPad(wr, e, serialized) ==
    IF ~serialized.ok THEN [ok |-> FALSE, w |-> wr, err |-> serialized.err]
    ELSE [ok |-> TRUE,
          w |-> [file |-> WriteAt(wr.file, wr.data_offset, serialized.v),
                 data_offset |-> wr.data_offset + serialized.v.len,
                 offsets |-> TableSet(wr.offsets, e.index, AsU32(wr.data_offset)),
                 sizes |-> TableSet(wr.sizes, e.index, AsU32(serialized.v.len)),
                 timestamps |-> TableSet(wr.timestamps, e.index, e.modified)]]

\* write_entry of entry e, on the result `serialized` of
\* e.serialized_bytes(): [ok, w].
Appended(wr, e, serialized) ==
    IF ~serialized.ok THEN [ok |-> FALSE, w |-> wr, err |-> serialized.err]
    ELSE
    LET start == wr.data_offset
        written == serialized.v.len
        pad == (SECTOR - (written % SECTOR)) % SECTOR
        f1 == WriteAt(wr.file, start, serialized.v)
        f2 == IF pad > 0 THEN WriteAt(f1, start + written, Zeros(pad)) ELSE f1
    IN  [ok |-> TRUE,
         w |-> [file |-> f2,
                data_offset |-> wr.data_offset + written + pad,
                offsets |-> TableSet(wr.offsets, e.index, AsU32(start)),
                sizes |-> TableSet(wr.sizes, e.index, AsU32(written + pad)),
                timestamps |-> TableSet(wr.timestamps, e.index, e.modified)]]

\* McaWriter::write_entry of entry e, read from file content f.
McaWriter_write_entry(wr, f, e) == Appended(wr, e, serialized_bytes(f, e))

\* A finalize that stores byte counts where the word holds sector counts.
LocationWord_Bytes(wr, i) ==
    (TableGet(wr.offsets, i) % (HALF * 256)) * 256 + (TableGet(wr.sizes, i) % 256)

\* The location word finalize builds for slot i: (off << 8) | (size & 0xFF).
LocationWord(wr, i) ==
    ((TableGet(wr.offsets, i) \div SECTOR) % (HALF * 256)) * 256
        + ((TableGet(wr.sizes, i) \div SECTOR) % 256)

\* A table of SLOTS big-endian words, words[i] for slot i, as finalize
\* builds it (the zero words contribute no non-zero byte).
WordTable(words) ==
    LET used == DOMAIN words
        byte(q) == BeBytes32(words[q \div 4])[(q % 4) + 1]
    IN  [len |-> 4 * SLOTS,
         nz |-> [q \in {k \in {4 * i + j : i \in used, j \in 0..3} : byte(k) # 0}
                    |-> byte(q)]]

\* A finalize that writes the location table only.
McaWriter_finalize_LocOnly(wr) ==
    [wr EXCEPT !.file =
        WriteAt(wr.file, 0,
                WordTable([i \in DOMAIN wr.offsets \cup DOMAIN wr.sizes |->
                              LocationWord(wr, i)]))]

\* finalize: seek to 0, write the location table, then the timestamp table.
McaWriter_finalize(wr) ==
    LET loc == WordTable([i \in DOMAIN wr.offsets \cup DOMAIN wr.sizes |->
                            LocationWord(wr, i)])
        time == WordTable(wr.timestamps)
    IN  [wr EXCEPT !.file = WriteAt(WriteAt(wr.file, 0, loc), loc.len, time)]

---------------------------------------------------------------------------
(* SpecScan: find_inhabited_fast applied to one payload. *)

\* The values the payloads carry: both signs, the ends of the i64 range,
\* values whose bytes differ only above the low 32 bits.
ScanValues ==
    {I64Of(0), I64Of(1), I64Of(42), I64Of(0 - 1), I64Of(0 - 42),
     I64(0, 256, 0), I64(1, 0, 42), I64(0 - 1, 0, 42),
     I64(32767, LIMB - 1, LIMB - 1), I64(0 - 32768, 0, 0)}

\* The header the test helper build_inhabited_entry_file writes: the name
\* with the length byte 0x0e.
TestPrefix == <<4, 0, 14>> \o InhabitedName

ScanJunk == {<<>>, <<10, 0, 0>>, <<4, 0, 13, 73>>}

ScanPayloads ==
    {pre \o hd \o to_be_bytes_i64(v) \o suf :
        pre \in ScanJunk, hd \in {ScanPrefix, TestPrefix}, v \in ScanValues,
        suf \in {<<>>, <<0>>}}
    \cup {pre \o ScanPrefix \o SubSeq(to_be_bytes_i64(v), 1, 7) :
            pre \in ScanJunk, v \in ScanValues}
    \cup {ScanPrefix \o to_be_bytes_i64(v) \o ScanPrefix \o to_be_bytes_i64(I64Of(7)) :
            v \in ScanValues}
    \cup ScanJunk

ScanIdle == scan_data = <<>> /\ scan_res = [done |-> FALSE]

ScanInit ==
    /\ scan_data \in ScanPayloads
    /\ scan_res = [done |-> FALSE]

ScanStep ==
    /\ ~scan_res.done
    /\ scan_res' = [done |-> TRUE, res |-> find_inhabited_fast(scan_data)]
    /\ UNCHANGED scan_data

---------------------------------------------------------------------------
(* SpecLz4: decode_lz4_blocks on one frame built as tests/lz4.rs builds    *)
(* it, unchanged or with one byte of its checksum, of its block or of its  *)
(* declared length changed.                                                *)

MaxPayload == 3

\* The payloads: the sequences of up to MaxPayload of three byte values,
\* and one whose last byte can change without changing the checksum.
Payloads ==
    UNION {[1..n -> {0, 3, 255}] : n \in 0..MaxPayload} \cup {<<17, 37, 3>>}

\* The bits changed in a byte.
FlipMasks == {1, 16, 128, 255}

\* lz4_flex::block::compress_prepend_size without the size, for a payload
\* below 13 bytes, which the compressor stores as one run of literals.
lz4_compress(B) == <<Len(B) * 16>> \o B

\* The frame of the tests: magic, token, the lengths of the block and of
\* the payload, the checksum, the block.
Lz4Frame(token, block, decomp_len, checksum) ==
    LZ4_MAGIC \o <<token>> \o LeBytes32(U32Of(Len(block)))
        \o LeBytes32(U32Of(decomp_len)) \o LeBytes32(checksum) \o block

\* The frame of payload B with the raw token 0x10 or the LZ4 token 0x20.
Encoded(B, token) ==
    Lz4Frame(token, IF token = 16 THEN B ELSE lz4_compress(B),
             Len(B), lz4_checksum(B))

\* Stream s with the bits `mask` of its byte at pos changed.
Flipped(s, pos, mask) == [s EXCEPT ![pos] = XorN(@, mask, 8)]

\* The streams handed to the decoder: the frame, and the frame with one
\* byte of the checksum (the 4 bytes before the block), of the block, or of
\* the declared decompressed length (the 4 bytes before the checksum; its
\* three low bytes, which keeps the length below 2^24) changed.
Lz4CasesOf(B, token, frame) ==
    {[payload |-> B, token |-> token, part |-> "none", stream |-> frame]}
    \cup {[payload |-> B, token |-> token, part |-> "checksum",
           stream |-> Flipped(frame, k, m)] :
            k \in (LZ4_HEADER_LEN - 3)..LZ4_HEADER_LEN, m \in FlipMasks}
    \cup {[payload |-> B, token |-> token, part |-> "body",
           stream |-> Flipped(frame, k, m)] :
            k \in (LZ4_HEADER_LEN + 1)..Len(frame), m \in FlipMasks}
    \cup {[payload |-> B, token |-> token, part |-> "length",
           stream |-> Flipped(frame, k, m)] :
            k \in (LZ4_HEADER_LEN - 7)..(LZ4_HEADER_LEN - 5), m \in FlipMasks}

Lz4Cases ==
    UNION {Lz4CasesOf(B, token, Encoded(B, token)) : B \in Payloads, token \in {16, 32}}

Lz4Idle == lz4_case = <<>> /\ lz4_res = [done |-> FALSE]

Lz4Init ==
    /\ lz4_case \in Lz4Cases
    /\ lz4_res = [done |-> FALSE]

Lz4Decode ==
    /\ ~lz4_res.done
    /\ lz4_res' = [done |-> TRUE, res |-> decode_lz4_blocks(lz4_case.stream)]
    /\ UNCHANGED lz4_case

---------------------------------------------------------------------------
(* SpecWriter: one McaWriter, entries appended from a source file, and     *)
(* finalize.  The source file holds slots of several sizes.                *)

MaxAppends == 3

\* A stored slot: the length word, the method byte, the first payload
\* bytes; `last` is the slot's final byte when it lies beyond them.
StoredSlot(L, method, payload, last) ==
    LET head == FromSeq(BeBytes32(L) \o <<method>> \o payload)
    IN  IF 4 + L > head.len THEN WriteAt(head, 3 + L, FromSeq(<<last>>)) ELSE head

\* Where the slots of the source file start.
SrcSmall == 0
SrcSector == 16
SrcBig255 == 2 * SECTOR
SrcBig256 == SrcBig255 + 255 * SECTOR
SrcBig257 == SrcBig256 + 256 * SECTOR
SrcBad == SrcBig257 + 257 * SECTOR
SrcCut == SrcBad + 16

WriterSource ==
    LET f1 == WriteAt(EmptyBytes, SrcSmall, StoredSlot(3, 3, <<7, 9>>, 0))
        f2 == WriteAt(f1, SrcSector, StoredSlot(SECTOR - 4, 3, <<1>>, 201))
        f3 == WriteAt(f2, SrcBig255, StoredSlot(255 * SECTOR - 14, 3, <<2>>, 202))
        f4 == WriteAt(f3, SrcBig256, StoredSlot(255 * SECTOR - 3, 3, <<3>>, 203))
        f5 == WriteAt(f4, SrcBig257, StoredSlot(256 * SECTOR - 3, 3, <<4>>, 204))
        f6 == WriteAt(f5, SrcBad, StoredSlot(3, 9, <<5, 5>>, 0))
    IN  WriteAt(f6, SrcCut, FromSeq(BeBytes32(100) \o <<3, 6, 6, 6>>))

\* The entry handles the appends choose from: (start, length, index,
\* modified, region_x, region_z).  Two of them name slot 1.
WriterEntries ==
    {McaEntry(SrcSmall, SECTOR, 0, 11, 0, 0),
     McaEntry(SrcSector, SECTOR, 1, 12, 0, 0),
     McaEntry(SrcBig255, 255 * SECTOR, 2, 13, 0, 0),
     McaEntry(SrcBig256, 0, SLOTS - 1, 14, 0, 0),
     McaEntry(SrcBig257, SECTOR, 5, 15, 0, 0),
     McaEntry(SrcBad, SECTOR, 6, 16, 0, 0),
     McaEntry(SrcCut, SECTOR, 7, 17, 0, 0),
     McaEntry(SrcSmall, SECTOR, 1, 18, 0, 0)}

WriterIdle == w_src = EmptyBytes /\ w = <<>> /\ w_log = <<>> /\ w_final = FALSE

WriterInit ==
    /\ w_src = WriterSource
    /\ w = McaWriter_open
    /\ w_log = <<>>
    /\ w_final = FALSE

\* write_entry(e).  The log keeps, for each call, the entry, the data
\* cursor before and after, and whether the call returned Ok.
WriterAppend ==
    /\ Len(w_log) < MaxAppends
    /\ \E e \in WriterEntries :
        LET r == McaWriter_write_entry(w, w_src, e) IN
        /\ w' = r.w
        /\ w_log' = Append(w_log, [e |-> e, ok |-> r.ok, start |-> w.data_offset,
                                   end |-> r.w.data_offset])
        /\ w_final' = (w_final /\ ~r.ok)
    /\ UNCHANGED w_src

\* finalize()
WriterFinalize ==
    /\ ~w_final
    /\ w' = McaWriter_finalize(w)
    /\ w_final' = TRUE
    /\ UNCHANGED <<w_src, w_log>>

---------------------------------------------------------------------------
(* world/mod.rs: the disk.  A path is <<root, dimension, family, name>>;   *)
(* a directory is <<root>>, <<root, dimension>> or <<root, dimension,      *)
(* family>>.  A file name is [form, x, z]: form "r" is r.<x>.<z>.mca,      *)
(* form "mca" another name ending in .mca, form "txt" any other file.      *)

\* Dimension "." is the world directory itself (its region directory is
\* <input>/region), "DIM-1" a directory inside it.
Dims == {".", "DIM-1"}
Families == {"region", "entities", "poi"}

RegionName(x, z) == [form |-> "r", x |-> x, z |-> z]
OtherMca == [form |-> "mca", x |-> 0, z |-> 0]
OtherFile == [form |-> "txt", x |-> 0, z |-> 0]

\* p.extension() == Some("mca")
HasMcaExtension(name) == name.form \in {"r", "mca"}

FilesIn(fs, root, d, fam) ==
    {k \in DOMAIN fs : k[1] = root /\ k[2] = d /\ k[3] = fam}

\* A check that accepts a file of any length.
is_valid_mca_AnyLength(fs, path) == path \in DOMAIN fs

\* is_valid_mca: the file is at least 8192 bytes long.
is_valid_mca(fs, path) == path \in DOMAIN fs /\ fs[path].len >= HEADER_BYTES

\* is_dimension_dir
is_dimension_dir(ds, root, d) == <<root, d, "region">> \in ds

\* The I/O errors of a run: the read of the header of the input file
\* <<d, fam, name>> fails (read_exact in read_header), or a write of
\* finalize to the output file <<d, fam, name>> fails.
Fault(at, d, fam, name) == [at |-> at, d |-> d, fam |-> fam, name |-> name]
HeaderUnreadable(path) == Fault("read_header", path[2], path[3], path[4]) \in faults
FinalizeFails(d, fam, name) == Fault("finalize", d, fam, name) \in faults

\* McaReader::open(path): the regex on the name, then File::open.
OpenReader(fs, path) ==
    IF path[4].form # "r" THEN Err("invalid mca filename")
    ELSE IF path \notin DOMAIN fs THEN Err("No such file or directory")
    ELSE Ok(McaReader_open(path[4].x, path[4].z))

\* *a as i32 on an i64
AsI32(v) ==
    LET b == v.m % 256 IN (IF b >= 128 THEN b - 256 ELSE b) * LIMB + v.l

\* The pairs of the legacy LongArray "Forced".
RECURSIVE ForcedPairs(_)
ForcedPairs(arr) ==
    IF Len(arr) < 2 THEN <<>>
    ELSE <<<<AsI32(arr[1]), AsI32(arr[2])>>>> \o ForcedPairs(SubSeq(arr, 3, Len(arr)))

\* The chunk_pos of the tickets of type minecraft:forced.
RECURSIVE TicketCoords(_)
TicketCoords(list) ==
    IF list = <<>> THEN <<>>
    ELSE (IF list[1].type = "minecraft:forced" /\ Len(list[1].chunk_pos) = 2
          THEN <<<<list[1].chunk_pos[1], list[1].chunk_pos[2]>>>> ELSE <<>>)
         \o TicketCoords(Tail(list))

\* parse_force_loaded.  data/chunks.dat is [kind, Forced, tickets]: kind
\* "absent" (no file), "corrupt" (gzip or NBT does not parse, or the root
\* has no compound "data"), or "nbt" with the two lists under "data".
parse_force_loaded(cd) ==
    IF cd.kind # "nbt" THEN <<>>
    ELSE ForcedPairs(cd.Forced) \o TicketCoords(cd.tickets)

\* count_total_chunks: the entries of every valid region file that opens.
\* [ok, n]; the location table of a file can overflow the reader.
CountOf(en) ==
    IF en.ok THEN Ok(Len(en.v.entries)) ELSE IF en.panic THEN en ELSE Ok(0)

\* What one file of a region directory adds to the count.
RegionEntryCount(fs, path) ==
    IF ~(HasMcaExtension(path[4]) /\ is_valid_mca(fs, path)) THEN Ok(0)
    ELSE IF ~OpenReader(fs, path).ok THEN Ok(0)
    ELSE IF HeaderUnreadable(path) THEN CountOf(Err("Input/output error"))
    ELSE CountOf(McaReader_entries(OpenReader(fs, path).v, fs[path]))

\* total += n, unless one of the two panicked.
Added(c, rest) ==
    IF ~c.ok THEN c ELSE IF ~rest.ok THEN rest ELSE Ok(c.v + rest.v)

RECURSIVE SumCounts(_, _)
SumCounts(fs, paths) ==
    IF paths = {} THEN Ok(0)
    ELSE LET q == CHOOSE x \in paths : TRUE
         IN  Added(RegionEntryCount(fs, q), SumCounts(fs, paths \ {q}))

count_total_chunks(fs, dims) ==
    SumCounts(fs, UNION {FilesIn(fs, "in", d, "region") : d \in dims})

---------------------------------------------------------------------------
(* The worlds run is called on.  A region file is laid out as Minecraft    *)
(* and McaWriter lay it out: the stored slots follow the two tables, each  *)
(* padded to whole sectors.                                                *)

\* A stored slot with length word L, method byte and the bytes after it.
SlotSeq(L, method, rest) == BeBytes32(L) \o <<method>> \o rest

\* A well-formed slot: L counts the method byte and the payload.
Stored(method, payload) == SlotSeq(1 + Len(payload), method, payload)

SectorsOf(n) == (n + SECTOR - 1) \div SECTOR

\* The region file with the stored slots of `slots`, a sequence of
\* [index, ts, bytes, sectors]: sectors is the count its location word
\* claims (0 marks the slot empty although its data is in the file).
RECURSIVE LayOut(_, _, _)
LayOut(slots, f, sector) ==
    IF slots = <<>> THEN f
    ELSE LET sl == slots[1]
             used == SectorsOf(Len(sl.bytes))
             f1 == WriteAt(f, sector * SECTOR,
                           WriteAt(Zeros(used * SECTOR), 0, FromSeq(sl.bytes)))
             f2 == WriteAt(f1, 4 * sl.index,
                           FromSeq(BeBytes32(sector * 256 + sl.sectors)))
             f3 == WriteAt(f2, SECTOR + 4 * sl.index, FromSeq(BeBytes32(sl.ts)))
         IN  LayOut(Tail(slots), f3, sector + used)

RegionFile(slots) == LayOut(slots, Zeros(HEADER_BYTES), 2)

\* A region file whose slot `index` points behind the end of the file.
WithDanglingSlot(f, index) ==
    WriteAt(f, 4 * index, FromSeq(BeBytes32((f.len \div SECTOR + 1) * 256 + 1)))

\* The NBT field InhabitedTime = v as Minecraft writes it.
Field(v) == <<4, 0, 13>> \o InhabitedName \o to_be_bytes_i64(v)

\* Field(42) as a zlib stream, a gzip stream and an LZ4Block frame (stored
\* block, raw token), with their checksums.
ZlibField42 ==
    <<120, 1, 1, 24, 0, 231, 255>> \o Field(I64Of(42)) \o <<77, 153, 5, 83>>
GzipField42 ==
    <<31, 139, 8, 0, 0, 0, 0, 0, 4, 3, 1, 24, 0, 231, 255>> \o Field(I64Of(42))
        \o <<52, 225, 201, 222, 24, 0, 0, 0>>
Lz4Field42 ==
    LZ4_MAGIC \o <<16, 24, 0, 0, 0, 24, 0, 0, 0, 155, 204, 240, 7>> \o Field(I64Of(42))
Lz4CompressedField42 ==
    LZ4_MAGIC \o <<32, 26, 0, 0, 0, 24, 0, 0, 0, 155, 204, 240, 7, 240, 9>>
        \o Field(I64Of(42))

\* The same with one checksum byte changed.
ZlibBadSum ==
    <<120, 1, 1, 24, 0, 231, 255>> \o Field(I64Of(42)) \o <<77, 153, 5, 84>>
GzipBadSum ==
    <<31, 139, 8, 0, 0, 0, 0, 0, 4, 3, 1, 24, 0, 231, 255>> \o Field(I64Of(42))
        \o <<53, 225, 201, 222, 24, 0, 0, 0>>
Lz4BadSum ==
    LZ4_MAGIC \o <<16, 24, 0, 0, 0, 24, 0, 0, 0, 155, 204, 240, 8>> \o Field(I64Of(42))

\* The stored slots of the modelled worlds, by kind.
RunValues == {I64Of(41), I64Of(42), I64Of(43), I64Of(0 - 1), I64(1, 0, 0)}

FieldKinds ==
    {[kind |-> "raw", v |-> v, bytes |-> Stored(3, <<10, 0, 0>> \o Field(v) \o <<0>>)] :
        v \in RunValues}
    \cup {[kind |-> "zlib", v |-> I64Of(42), bytes |-> Stored(2, ZlibField42)],
          [kind |-> "gzip", v |-> I64Of(42), bytes |-> Stored(1, GzipField42)],
          [kind |-> "lz4", v |-> I64Of(42), bytes |-> Stored(4, Lz4Field42)],
          [kind |-> "lz4c", v |-> I64Of(42), bytes |-> Stored(4, Lz4CompressedField42)]}

\* Slots a predicate cannot inspect.
OpaqueKinds ==
    {[kind |-> "nofield", v |-> I64Of(0), bytes |-> Stored(3, <<10, 0, 0, 8, 0, 1, 120>>)],
     [kind |-> "empty", v |-> I64Of(0), bytes |-> Stored(3, <<>>)],
     [kind |-> "test14", v |-> I64Of(42),
      bytes |-> Stored(3, TestPrefix \o to_be_bytes_i64(I64Of(42)))],
     [kind |-> "external", v |-> I64Of(0), bytes |-> Stored(130, <<>>)],
     [kind |-> "custom", v |-> I64Of(0),
      bytes |-> Stored(127, <<0, 2, 122, 122, 0, 0, 9, 9>>)],
     [kind |-> "customFF", v |-> I64Of(0),
      bytes |-> Stored(127, <<0, 2, 122, 122, 255, 255, 9, 9>> \o Field(I64Of(42)))]}

\* Slots whose evaluation fails.
FailingKinds ==
    {[kind |-> "unknown", v |-> I64Of(42), bytes |-> Stored(9, Field(I64Of(42)))],
     [kind |-> "zlibBad", v |-> I64Of(42), bytes |-> Stored(2, ZlibBadSum)],
     [kind |-> "gzipBad", v |-> I64Of(42), bytes |-> Stored(1, GzipBadSum)],
     [kind |-> "lz4Bad", v |-> I64Of(42), bytes |-> Stored(4, Lz4BadSum)],
     [kind |-> "dangling", v |-> I64Of(0), bytes |-> <<>>]}

\* A slot whose length word is 0 (the payload length underflows).
UnderflowKinds ==
    {[kind |-> "len0", v |-> I64Of(42), bytes |-> SlotSeq(0, 3, Field(I64Of(42)))]}

SlotKinds == FieldKinds \cup OpaqueKinds \cup FailingKinds \cup UnderflowKinds

\* The slots of the varied region file.
SlotA == 0
SlotB == 33

\* The region file with kind ka in SlotA and kind kb in SlotB.
TwoSlotRegion(ka, kb) ==
    LET rest == <<[index |-> SlotB, ts |-> 1002, bytes |-> kb.bytes,
                   sectors |-> SectorsOf(Len(kb.bytes))]>>
    IN  IF ka.kind = "dangling"
        THEN WithDanglingSlot(RegionFile(rest), SlotA)
        ELSE RegionFile(<<[index |-> SlotA, ts |-> 1001, bytes |-> ka.bytes,
                           sectors |-> SectorsOf(Len(ka.bytes))]>> \o rest)

\* An entities or poi file with a stored slot in each slot of `indexes`.
MirrorFile(indexes) ==
    RegionFile([k \in 1..Len(indexes) |->
        [index |-> indexes[k], ts |-> 2000 + indexes[k],
         bytes |-> Stored(2, <<69, indexes[k]>>), sectors |-> 1]])

\* data/chunks.dat
NoChunksDat == [kind |-> "absent", Forced |-> <<>>, tickets |-> <<>>]
CorruptChunksDat == [kind |-> "corrupt", Forced |-> <<>>, tickets |-> <<>>]
\* Legacy: the pair (0, 0) and a last long without a partner.
LegacyForcesA ==
    [kind |-> "nbt", Forced |-> <<I64Of(0), I64Of(0), I64Of(1)>>, tickets |-> <<>>]
\* Modern: a forced ticket for (0, 0), a ticket of another type for (1, 1).
ModernForcesA ==
    [kind |-> "nbt", Forced |-> <<>>,
     tickets |-> <<[type |-> "minecraft:player", chunk_pos |-> <<1, 1>>],
                   [type |-> "minecraft:forced", chunk_pos |-> <<0, 0>>]>>]

\* A slot whose location word names a sector from 2^20 on: Field(42) is
\* stored at sector 2, the word says sector 2^20 + 2.
FarKinds ==
    {[kind |-> "farloc", v |-> I64Of(42),
      bytes |-> Stored(3, <<10, 0, 0>> \o Field(I64Of(42)) \o <<0>>)]}

WithFarSlot(f, index) ==
    WriteAt(f, 4 * index, FromSeq(<<16, 0, 2, 1>>))

\* The region file with kind ka in SlotA and kind kb in SlotB.
RegionAB(ka, kb) ==
    LET f == TwoSlotRegion(ka, kb)
    IN  IF ka.kind = "farloc" THEN WithFarSlot(f, SlotA) ELSE f

\* The disk with the files of `S`, a set of [path, bytes].
FilesOf(S) == [p \in {x.path : x \in S} |-> (CHOOSE x \in S : x.path = p).bytes]

\* The directories that hold the files of fs, and the input directory.
DirsOf(fs) ==
    {<<"in">>} \cup {<<p[1], p[2]>> : p \in {q \in DOMAIN fs : q[2] # "."}}
               \cup {<<p[1], p[2], p[3]>> : p \in DOMAIN fs}

Arguments(output, threshold, remove_unknown, progress_mode, is_tty) ==
    [output |-> output, inhabited_threshold |-> threshold,
     remove_unknown |-> remove_unknown, progress_mode |-> progress_mode,
     is_tty |-> is_tty]

Thresholds == {I64Of(42), I64(1, 0, 0)}

\* The kinds whose handling depends on the build's overflow checks.
OverflowKinds == {"len0", "farloc"}

\* Worlds of one dimension with one region file: kind ka in SlotA.
OneRegionWorldsOf(ka) ==
    {[args |-> Arguments(Some("out"), th, ru, "Off", TRUE),
      files |-> FilesOf({[path |-> <<"in", ".", "region", RegionName(0, 0)>>,
                          bytes |-> RegionAB(ka, kb)]} \cup ent),
      dirs |-> DirsOf(FilesOf({[path |-> <<"in", ".", "region", RegionName(0, 0)>>,
                                bytes |-> EmptyBytes]} \cup ent)),
      chunks_dat |-> [d \in Dims |-> IF d = "." THEN cd ELSE NoChunksDat],
      overflow_checks |-> oc, faults |-> {}] :
        kb \in {k \in SlotKinds : k.kind = "nofield" \/ (k.kind = "raw" /\ k.v = I64Of(43))},
        cd \in {NoChunksDat, LegacyForcesA},
        th \in Thresholds, ru \in BOOLEAN,
        oc \in IF ka.kind \in OverflowKinds THEN BOOLEAN ELSE {FALSE},
        ent \in {{}, {[path |-> <<"in", ".", "entities", RegionName(0, 0)>>,
                       bytes |-> MirrorFile(<<SlotA>>)]}}}

OneRegionWorlds == UNION {OneRegionWorldsOf(ka) : ka \in SlotKinds \cup FarKinds}

\* A world of two dimensions: region files with their entities and poi
\* files, a file too short to be a region file with an entities file of
\* its name, a .mca file with another name and a file that is no .mca file.
TwoDimensionFiles ==
    FilesOf({
        [path |-> <<"in", ".", "region", RegionName(0, 0)>>,
         bytes |-> RegionAB(CHOOSE k \in FieldKinds : k.kind = "raw" /\ k.v = I64Of(42),
                            CHOOSE k \in FieldKinds : k.kind = "raw" /\ k.v = I64Of(41))],
        [path |-> <<"in", ".", "entities", RegionName(0, 0)>>,
         bytes |-> MirrorFile(<<SlotA, SlotB>>)],
        [path |-> <<"in", ".", "poi", RegionName(0, 0)>>,
         bytes |-> MirrorFile(<<SlotB>>)],
        [path |-> <<"in", ".", "poi", RegionName(0 - 1, 0)>>,
         bytes |-> MirrorFile(<<SlotA>>)],
        [path |-> <<"in", ".", "region", RegionName(0, 1)>>, bytes |-> Zeros(SECTOR)],
        [path |-> <<"in", ".", "entities", RegionName(0, 1)>>,
         bytes |-> MirrorFile(<<SlotA>>)],
        [path |-> <<"in", ".", "region", OtherMca>>,
         bytes |-> RegionFile(<<>>)],
        [path |-> <<"in", ".", "region", OtherFile>>, bytes |-> FromSeq(<<104, 105>>)],
        [path |-> <<"in", "DIM-1", "region", RegionName(0 - 1, 0)>>,
         bytes |-> RegionAB(CHOOSE k \in OpaqueKinds : k.kind = "nofield",
                            CHOOSE k \in FieldKinds : k.kind = "zlib")],
        [path |-> <<"in", "DIM-1", "entities", RegionName(0 - 1, 0)>>,
         bytes |-> Zeros(SECTOR)]})

\* In region r.-1.0 slot SlotB is the chunk (-31, 1).
ModernForcesB ==
    [kind |-> "nbt", Forced |-> <<>>,
     tickets |-> <<[type |-> "minecraft:forced", chunk_pos |-> <<0 - 31, 1>>],
                   [type |-> "minecraft:forced", chunk_pos |-> <<7>>]>>]

TwoDimensionWorlds ==
    {[args |-> Arguments(out, I64Of(42), ru, pm[1], pm[2]),
      files |-> TwoDimensionFiles,
      dirs |-> DirsOf(TwoDimensionFiles),
      chunks_dat |-> [d \in Dims |-> IF d = "." THEN cd ELSE ModernForcesB],
      overflow_checks |-> FALSE, faults |-> {}] :
        out \in {None, Some("out")}, ru \in BOOLEAN,
        pm \in {<<"Off", TRUE>>, <<"Global", TRUE>>, <<"Global", FALSE>>},
        cd \in {ModernForcesA, CorruptChunksDat}}

\* One region file with Field(42) in SlotA and Field(43) in SlotB.
PlainRegion ==
    [path |-> <<"in", ".", "region", RegionName(0, 0)>>,
     bytes |-> RegionAB(CHOOSE k \in FieldKinds : k.kind = "raw" /\ k.v = I64Of(42),
                        CHOOSE k \in FieldKinds : k.kind = "raw" /\ k.v = I64Of(43))]

\* An entities file whose SlotA names a sector from 2^20 on.
FarEntities ==
    [path |-> <<"in", ".", "entities", RegionName(0, 0)>>,
     bytes |-> WithFarSlot(MirrorFile(<<SlotA>>), SlotA)]

\* An entities file whose SlotA is stored with a method code of no known
\* compression.
OddEntities ==
    [path |-> <<"in", ".", "entities", RegionName(0, 0)>>,
     bytes |-> RegionFile(<<[index |-> SlotA, ts |-> 2000, sectors |-> 1,
                             bytes |-> Stored(9, <<69, 0, 7>>)]>>)]

\* Worlds at the edges: the input is no directory; the output directory
\* exists and holds a file; it exists and is empty; the input holds no
\* dimension; the table of an entities file overflows the reader; a slot
\* of an entities file has an unknown method code.
EdgeWorlds ==
    {[args |-> Arguments(Some("out"), I64Of(42), FALSE, "Off", TRUE),
      files |-> FilesOf(fd[1]), dirs |-> fd[2],
      chunks_dat |-> [d \in Dims |-> NoChunksDat],
      overflow_checks |-> fd[3], faults |-> {}] :
        fd \in {<<{}, {}, FALSE>>,
                 <<{PlainRegion, [path |-> <<"out", ".", "region", OtherFile>>,
                                  bytes |-> FromSeq(<<104, 105>>)]},
                   DirsOf(FilesOf({PlainRegion})) \cup {<<"out">>, <<"out", ".", "region">>},
                   FALSE>>,
                 <<{PlainRegion}, DirsOf(FilesOf({PlainRegion})) \cup {<<"out">>}, FALSE>>,
                 <<{}, {<<"in">>}, FALSE>>,
                 <<{PlainRegion, FarEntities},
                   DirsOf(FilesOf({PlainRegion, FarEntities})), TRUE>>,
                 <<{PlainRegion, OddEntities},
                   DirsOf(FilesOf({PlainRegion, OddEntities})), FALSE>>}}

\* The disk with `bytes` stored at `path`.
Store(fs, path, bytes) ==
    [p \in DOMAIN fs \cup {path} |-> IF p = path THEN bytes ELSE fs[p]]

\* The two dimensions with a second region file in the first.
FaultFiles ==
    Store(TwoDimensionFiles, <<"in", ".", "region", RegionName(1, 0)>>,
          RegionAB(CHOOSE k \in FieldKinds : k.kind = "raw" /\ k.v = I64Of(42),
                   CHOOSE k \in FieldKinds : k.kind = "raw" /\ k.v = I64Of(43)))

\* Worlds with one I/O error: a finalize of one of the output files fails,
\* or the header of an input region file cannot be read.
FaultWorlds ==
    {[args |-> Arguments(out, I64Of(42), FALSE, "Global", TRUE),
      files |-> FaultFiles,
      dirs |-> DirsOf(FaultFiles),
      chunks_dat |-> [d \in Dims |-> NoChunksDat],
      overflow_checks |-> FALSE, faults |-> {ft}] :
        out \in {None, Some("out")},
        ft \in {Fault("finalize", ".", fam, RegionName(0, 0)) :
                    fam \in {"region", "entities", "poi"}}
               \cup {Fault("finalize", "DIM-1", "region", RegionName(0 - 1, 0)),
                     Fault("read_header", ".", "region", RegionName(0, 0))}}

Worlds == OneRegionWorlds \cup TwoDimensionWorlds \cup EdgeWorlds \cup FaultWorlds

---------------------------------------------------------------------------
(* world/mod.rs: run.  The main thread checks the arguments and finds the  *)
(* dimensions; one worker per dimension processes its region files, entry  *)
(* by entry; the main thread prints the summary and, without an output     *)
(* directory, mirrors the result back into the input.                      *)

\* out: the given output directory, or a fresh directory under temp_dir().
OutRoot == IF args.output.some THEN args.output.v ELSE "tmp"

\* global_pb is Some
GlobalEnabled == args.progress_mode # "Off" /\ args.is_tty

\* out.read_dir()?.next().is_some()
DirNonEmpty(fs, ds, root) ==
    \/ \E p \in DOMAIN fs : p[1] = root
    \/ \E q \in ds : q[1] = root /\ Len(q) > 1

\* The directory of dimension d under root.
DimDir(root, d) == IF d = "." THEN <<root>> ELSE <<root, d>>

NoRegion == [open |-> FALSE]
IdleWorker == [pc |-> "idle", forced |-> <<>>, todo |-> {}, cur |-> NoRegion]

\* run up to the parallel loop: the checks of input and output, the
\* dimensions ts and the count total of their chunks.
Called(ts, total) ==
    /\ dirs' = dirs \cup {<<OutRoot>>}
    /\ tasks' = ts
    /\ total_chunks' = IF total.ok THEN total.v ELSE 0
    /\ main_pc' = IF total.ok THEN "workers" ELSE "panic"

\* A run that checks its input only.
RunCall_NoOutputCheck ==
    /\ main_pc = "call"
    /\ IF <<"in">> \notin dirs
       THEN main_pc' = "err" /\ UNCHANGED <<dirs, tasks, total_chunks>>
       ELSE Called({d \in Dims : is_dimension_dir(dirs, "in", d)},
                   count_total_chunks(files, {d \in Dims : is_dimension_dir(dirs, "in", d)}))
    /\ UNCHANGED <<args, files, chunks_dat, wk, counterVars, log, input0>>

RunCall ==
    /\ main_pc = "call"
    /\ IF <<"in">> \notin dirs \/ (<<OutRoot>> \in dirs /\ DirNonEmpty(files, dirs, OutRoot))
       THEN main_pc' = "err" /\ UNCHANGED <<dirs, tasks, total_chunks>>
       ELSE Called({d \in Dims : is_dimension_dir(dirs, "in", d)},
                   count_total_chunks(files, {d \in Dims : is_dimension_dir(dirs, "in", d)}))
    /\ UNCHANGED <<args, files, chunks_dat, wk, counterVars, log, input0>>

\* A worker takes dimension d: the target directories and the patterns.
DimStart(d) ==
    /\ main_pc = "workers" /\ d \in tasks /\ wk[d].pc = "idle"
    /\ dirs' = dirs \cup {DimDir(OutRoot, d), <<OutRoot, d, "region">>}
                    \cup {<<OutRoot, d, fam>> : fam \in
                            {x \in {"entities", "poi"} : <<"in", d, x>> \in dirs}}
    /\ wk' = [wk EXCEPT ![d] =
                [pc |-> "regions", forced |-> parse_force_loaded(chunks_dat[d]),
                 todo |-> FilesIn(files, "in", d, "region"), cur |-> NoRegion]]
    /\ UNCHANGED <<args, files, chunks_dat, main_pc, tasks, total_chunks,
                   counterVars, log, input0>>

\* The reader of a mirrored file, if the file is a valid region file.
MirrorReader(fs, path) ==
    IF ~is_valid_mca(fs, path) THEN None
    ELSE LET r == OpenReader(fs, path) IN IF r.ok THEN Some(r.v) ELSE None

\* The region file `name` of d is open: its writers, the readers of its
\* entities and poi files, and region_entries, the result of cr.entries().
Opened(d, name, rest, region_entries) ==
    LET efile == <<"in", d, "entities", name>>
        pfile == <<"in", d, "poi", name>>
        hasE == is_valid_mca(files, efile)
        hasP == is_valid_mca(files, pfile)
        fs1 == Store(files, <<OutRoot, d, "region", name>>, McaWriter_open.file)
        fs2 == IF hasE
               THEN Store(fs1, <<OutRoot, d, "entities", name>>, McaWriter_open.file)
               ELSE fs1
    IN  /\ files' = IF hasP
                    THEN Store(fs2, <<OutRoot, d, "poi", name>>, McaWriter_open.file)
                    ELSE fs2
        /\ IF ~region_entries.ok /\ region_entries.panic
           THEN wk' = [wk EXCEPT ![d].todo = rest, ![d].pc = "panicked"]
           ELSE wk' = [wk EXCEPT ![d].todo = rest, ![d].cur =
                        [open |-> TRUE, name |-> name, phase |-> "entry",
                         cw |-> McaWriter_open,
                         ew |-> IF hasE THEN Some(McaWriter_open) ELSE None,
                         pw |-> IF hasP THEN Some(McaWriter_open) ELSE None,
                         er |-> MirrorReader(files, efile),
                         pr |-> MirrorReader(files, pfile),
                         region_entries |-> IF region_entries.ok
                                            THEN region_entries.v.entries ELSE <<>>,
                         k |-> 1, removed |-> 0, pct |-> 0, prev |-> 0]]

\* The next file of the region directory: skipped, or opened.
RegionOpen(d) ==
    /\ wk[d].pc = "regions" /\ ~wk[d].cur.open
    /\ \E rf \in wk[d].todo :
        IF ~(HasMcaExtension(rf[4]) /\ is_valid_mca(files, rf))
           \/ ~OpenReader(files, rf).ok
        THEN /\ wk' = [wk EXCEPT ![d].todo = @ \ {rf}]
             /\ files' = files
        ELSE Opened(d, rf[4], wk[d].todo \ {rf},
                    IF HeaderUnreadable(rf) THEN Err("Input/output error")
                    ELSE McaReader_entries(OpenReader(files, rf).v, files[rf]))
    /\ UNCHANGED <<args, dirs, chunks_dat, main_pc, tasks, total_chunks,
                   counterVars, log, input0>>

\* A chain that keeps the chunk when the second pattern fails.
Chain_ErrKeeps(m1, m2) ==
    IF m1.v
    THEN [forced |-> TRUE, inhabited |-> None, keep |-> TRUE, panic |-> FALSE]
    ELSE [forced |-> FALSE, inhabited |-> Some(m2),
          keep |-> ~m2.ok \/ m2.v, panic |-> ~m2.ok /\ m2.panic]

\* A chain that asks every pattern.
Chain_AsksAll(m1, m2) ==
    [forced |-> m1.v, inhabited |-> Some(m2),
     keep |-> m1.v \/ (m2.ok /\ m2.v), panic |-> ~m2.ok /\ m2.panic]

\* The patterns in order, up to the first that matches, m1 the result of
\* the ListPattern and m2 that of the InhabitedTimePattern: [forced,
\* inhabited, keep, panic].  inhabited is None if m2 was not asked for.
Chain(m1, m2) ==
    IF m1.v
    THEN [forced |-> TRUE, inhabited |-> None, keep |-> TRUE, panic |-> FALSE]
    ELSE [forced |-> FALSE, inhabited |-> Some(m2),
          keep |-> m2.ok /\ m2.v, panic |-> ~m2.ok /\ m2.panic]

EvalPatterns(forced, f, e) ==
    Chain(ListPattern_matches(forced, e),
          InhabitedTimePattern_matches(args.inhabited_threshold,
                                       args.remove_unknown, f, e))

\* The mirroring of a slot from reader rd to writer wr: [rd, wr, did], the
\* reader and the writer afterwards.  g is the result of rd.get(index),
\* res that of wr.write_entry on the entry it returned.
Mirrored(rd, wr, g, res) ==
    IF ~g.ok
    THEN [rd |-> rd, wr |-> wr, did |-> IF g.panic THEN "panic" ELSE "read failed"]
    ELSE IF ~g.v.entry.some
    THEN [rd |-> Some(g.v.r), wr |-> wr, did |-> "absent"]
    ELSE IF ~wr.some
    THEN [rd |-> Some(g.v.r), wr |-> wr, did |-> "no writer"]
    ELSE [rd |-> Some(g.v.r), wr |-> Some(res.w),
          did |-> IF res.ok THEN "written" ELSE "write failed"]

\* The mirroring, on the result g of rd.get(index).
MirrorGot(rd, wr, f, g) ==
    Mirrored(rd, wr, g, McaWriter_write_entry(wr.v, f, g.v.entry.v))

\* The mirroring of slot `index` from reader rd, on file content f, to
\* writer wr.
Mirror(rd, wr, f, index) ==
    IF ~rd.some THEN [rd |-> rd, wr |-> wr, did |-> "no reader"]
    ELSE MirrorGot(rd, wr, f, McaReader_get(rd.v, f, index))

\* The content of the file at path, if it exists.
Content(fs, path) == IF path \in DOMAIN fs THEN fs[path] ELSE EmptyBytes

\* One turn of the loop over the entries of the open region file, up to
\* processed_chunks.fetch_add: ev is the verdict of the patterns on the entry,
\* written the result of cw.write_entry, em and pm the mirroring of the
\* entities and the poi slot.
Turn(d, entry, ev, written, em, pm) ==
    LET cur == wk[d].cur
        name == cur.name
        fs1 == Store(files, <<OutRoot, d, "region", name>>, written.w.file)
        fs2 == IF em.wr.some
               THEN Store(fs1, <<OutRoot, d, "entities", name>>, em.wr.v.file)
               ELSE fs1
        new_chunks == processed_chunks + 1
        line == [d |-> d, name |-> name, index |-> entry.index, start |-> entry.start,
                 gx |-> global_x(entry), gz |-> global_z(entry),
                 forced |-> ev.forced, inhabited |-> ev.inhabited,
                 keep |-> ev.keep,
                 wrote |-> ev.keep /\ written.ok,
                 entities |-> IF ev.keep THEN em.did ELSE "not kept",
                 poi |-> IF ev.keep /\ em.did # "panic" THEN pm.did ELSE "not kept"]
    IN  IF ev.panic
        THEN /\ wk' = [wk EXCEPT ![d].pc = "panicked"]
             /\ UNCHANGED <<files, processed_chunks, removed_total, log>>
        ELSE IF ev.keep /\ (em.did = "panic" \/ pm.did = "panic")
        THEN /\ wk' = [wk EXCEPT ![d].pc = "panicked"]
             /\ files' = IF em.did = "panic" THEN fs1 ELSE fs2
             /\ log' = log \cup {line}
             /\ UNCHANGED <<processed_chunks, removed_total>>
        ELSE /\ files' = IF ~ev.keep THEN files
                         ELSE IF pm.wr.some
                         THEN Store(fs2, <<OutRoot, d, "poi", name>>, pm.wr.v.file)
                         ELSE fs2
             /\ removed_total' = IF ev.keep THEN removed_total ELSE removed_total + 1
             /\ processed_chunks' = new_chunks
             /\ log' = log \cup {line}
             /\ wk' = [wk EXCEPT ![d].cur =
                  [cur EXCEPT
                     !.cw = IF ev.keep THEN written.w ELSE @,
                     !.er = IF ev.keep THEN em.rd ELSE @,
                     !.ew = IF ev.keep THEN em.wr ELSE @,
                     !.pr = IF ev.keep THEN pm.rd ELSE @,
                     !.pw = IF ev.keep THEN pm.wr ELSE @,
                     !.removed = IF ev.keep THEN @ ELSE @ + 1,
                     !.phase = IF GlobalEnabled THEN "entry" ELSE "load",
                     !.k = IF GlobalEnabled THEN @ + 1 ELSE @,
                     !.pct = IF GlobalEnabled THEN 0
                             ELSE (new_chunks * 100) \div Max(total_chunks, 1)]]

\* The turn of worker d on `entry` of the region file with content f.
TurnOn(d, entry, f) ==
    Turn(d, entry,
         EvalPatterns(wk[d].forced, f, entry),
         McaWriter_write_entry(wk[d].cur.cw, f, entry),
         Mirror(wk[d].cur.er, wk[d].cur.ew,
                Content(files, <<"in", d, "entities", wk[d].cur.name>>), entry.index),
         Mirror(wk[d].cur.pr, wk[d].cur.pw,
                Content(files, <<"in", d, "poi", wk[d].cur.name>>), entry.index))

EntryStep(d) ==
    /\ wk[d].pc = "regions" /\ wk[d].cur.open /\ wk[d].cur.phase = "entry"
    /\ wk[d].cur.k <= Len(wk[d].cur.region_entries)
    /\ TurnOn(d, wk[d].cur.region_entries[wk[d].cur.k],
              files[<<"in", d, "region", wk[d].cur.name>>])
    /\ UNCHANGED <<args, dirs, chunks_dat, main_pc, tasks, total_chunks,
                   processed_regions, last_pct, printed, input0>>

\* last_pct.load
LoadPct(d) ==
    /\ wk[d].pc = "regions" /\ wk[d].cur.open /\ wk[d].cur.phase = "load"
    /\ wk' = [wk EXCEPT ![d].cur.phase = "report", ![d].cur.prev = last_pct]
    /\ UNCHANGED <<args, files, dirs, chunks_dat, main_pc, tasks, total_chunks,
                   counterVars, log, input0>>

\* The rest of the turn: the store of last_pct and the progress line.
Report(d) ==
    /\ wk[d].pc = "regions" /\ wk[d].cur.open /\ wk[d].cur.phase = "report"
    /\ IF wk[d].cur.pct > wk[d].cur.prev
       THEN /\ last_pct' = wk[d].cur.pct
            /\ printed' = Append(printed, [pct |-> wk[d].cur.pct, d |-> d])
       ELSE UNCHANGED <<last_pct, printed>>
    /\ wk' = [wk EXCEPT ![d].cur.phase = "entry", ![d].cur.k = @ + 1]
    /\ UNCHANGED <<args, files, dirs, chunks_dat, main_pc, tasks, total_chunks,
                   processed_regions, processed_chunks, removed_total, log, input0>>

\* An Option<McaWriter> after finalize.
Finalized(wr) == IF wr.some THEN Some(McaWriter_finalize(wr.v)) ELSE wr

\* After the last entry: cw.finalize()?, then ew and pw likewise.  The
\* first finalize that fails leaves its file and those behind it as they
\* are and returns the error from the worker's closure.
RegionFinalize(d) ==
    /\ wk[d].pc = "regions" /\ wk[d].cur.open /\ wk[d].cur.phase = "entry"
    /\ wk[d].cur.k > Len(wk[d].cur.region_entries)
    /\ LET cur == wk[d].cur
           cfail == FinalizeFails(d, "region", cur.name)
           efail == cfail \/ (cur.ew.some /\ FinalizeFails(d, "entities", cur.name))
           pfail == efail \/ (cur.pw.some /\ FinalizeFails(d, "poi", cur.name))
           fs1 == IF cfail THEN files
                  ELSE Store(files, <<OutRoot, d, "region", cur.name>>,
                             McaWriter_finalize(cur.cw).file)
           fs2 == IF cur.ew.some /\ ~efail
                  THEN Store(fs1, <<OutRoot, d, "entities", cur.name>>,
                             Finalized(cur.ew).v.file)
                  ELSE fs1
           fs3 == IF cur.pw.some /\ ~pfail
                  THEN Store(fs2, <<OutRoot, d, "poi", cur.name>>,
                             Finalized(cur.pw).v.file)
                  ELSE fs2
       IN  /\ files' = fs3
           /\ processed_regions' = IF pfail THEN processed_regions
                                   ELSE processed_regions + 1
           /\ wk' = IF pfail THEN [wk EXCEPT ![d].pc = "failed"]
                    ELSE [wk EXCEPT ![d].cur = NoRegion]
    /\ UNCHANGED <<args, dirs, chunks_dat, main_pc, tasks, total_chunks,
                   processed_chunks, removed_total, last_pct, printed, log, input0>>

\* The region directory of d is exhausted: the worker returns Ok.
DimDone(d) ==
    /\ wk[d].pc = "regions" /\ ~wk[d].cur.open /\ wk[d].todo = {}
    /\ wk' = [wk EXCEPT ![d].pc = "done"]
    /\ UNCHANGED <<args, files, dirs, chunks_dat, main_pc, tasks, total_chunks,
                   counterVars, log, input0>>

\* try_for_each after the closure returned an error for a dimension: a
\* dimension no worker has taken yet is not taken any more.
DimSkip(d) ==
    /\ main_pc = "workers" /\ d \in tasks /\ wk[d].pc = "idle"
    /\ \E e \in tasks : wk[e].pc = "failed"
    /\ wk' = [wk EXCEPT ![d].pc = "skipped"]
    /\ UNCHANGED <<args, files, dirs, chunks_dat, main_pc, tasks, total_chunks,
                   counterVars, log, input0>>

\* A mirror that copies the output over the input and deletes nothing.
MirroredBack_CopyOnly(fs, ds, ts, out) ==
    LET copied == {p \in DOMAIN fs :
                    p[1] = out /\ p[2] \in ts /\ HasMcaExtension(p[4])}
        target(p) == <<"in", p[2], p[3], p[4]>>
        kept == {p \in DOMAIN fs : p[1] # out}
    IN  [q \in kept \cup {target(p) : p \in copied} |->
            IF <<out, q[2], q[3], q[4]>> \in copied
            THEN fs[<<out, q[2], q[3], q[4]>>] ELSE fs[q]]

\* The in-place mirror: in every family the output wrote, the .mca files
\* of the input that the output lacks are deleted and the output's .mca
\* files are copied over; then the temporary directory is removed.
MirroredBack(fs, ds, ts, out) ==
    LET gone == {p \in DOMAIN fs :
                    /\ p[1] = "in" /\ p[2] \in ts /\ <<out, p[2], p[3]>> \in ds
                    /\ HasMcaExtension(p[4])
                    /\ <<out, p[2], p[3], p[4]>> \notin DOMAIN fs}
        copied == {p \in DOMAIN fs :
                    p[1] = out /\ p[2] \in ts /\ HasMcaExtension(p[4])}
        target(p) == <<"in", p[2], p[3], p[4]>>
        kept == {p \in DOMAIN fs : p[1] # out} \ gone
    IN  [q \in kept \cup {target(p) : p \in copied} |->
            IF <<out, q[2], q[3], q[4]>> \in copied
            THEN fs[<<out, q[2], q[3], q[4]>>] ELSE fs[q]]

\* The parallel loop has returned: run panics with a worker that
\* panicked and returns the error of a worker that failed (`})?;`);
\* otherwise it prints the summary, mirrors the result back if no output
\* directory was given, and returns Ok.
RunReturn ==
    /\ main_pc = "workers"
    /\ \A d \in tasks : wk[d].pc \in {"done", "panicked", "failed", "skipped"}
    /\ IF \E d \in tasks : wk[d].pc = "panicked"
       THEN main_pc' = "panic" /\ UNCHANGED <<files, dirs, printed>>
       ELSE IF \E d \in tasks : wk[d].pc = "failed"
       THEN main_pc' = "err" /\ UNCHANGED <<files, dirs, printed>>
       ELSE /\ main_pc' = "ok"
            /\ printed' = Append(printed,
                    [kept |-> Max(processed_chunks - removed_total, 0),
                     removed |-> removed_total])
            /\ IF args.output.some
               THEN UNCHANGED <<files, dirs>>
               ELSE /\ files' = MirroredBack(files, dirs, tasks, OutRoot)
                    /\ dirs' = {q \in dirs : q[1] # OutRoot}
    /\ UNCHANGED <<args, chunks_dat, tasks, total_chunks, wk, processed_regions,
                   processed_chunks, removed_total, last_pct, log, input0>>

\* No run: the state of the world variables in the other specifications.
WorldIdle ==
    /\ args = Arguments(None, I64Of(0), FALSE, "Off", FALSE)
    /\ files = <<>> /\ dirs = {} /\ chunks_dat = <<>>
    /\ main_pc = "none" /\ tasks = {} /\ total_chunks = 0
    /\ wk = <<>>
    /\ processed_regions = 0 /\ processed_chunks = 0 /\ removed_total = 0
    /\ last_pct = 0 /\ printed = <<>>
    /\ log = {} /\ input0 = <<>>

\* The state when run is called on one of the worlds.
RunInit ==
    \E wd \in Worlds :
        /\ args = wd.args
        /\ files = wd.files /\ input0 = wd.files
        /\ dirs = wd.dirs
        /\ chunks_dat = wd.chunks_dat
        /\ overflow_checks = wd.overflow_checks
        /\ faults = wd.faults
        /\ main_pc = "call" /\ tasks = {} /\ total_chunks = 0
        /\ wk = [d \in Dims |-> IdleWorker]
        /\ processed_regions = 0 /\ processed_chunks = 0 /\ removed_total = 0
        /\ last_pct = 0 /\ printed = <<>>
        /\ log = {}

---------------------------------------------------------------------------
(* SpecCursor: the entries of one reader.  McaReader::entries gives every  *)
(* entry self.file.try_clone(); File::try_clone duplicates the descriptor, *)
(* and the duplicate refers to the same open file description, whose byte  *)
(* cursor seek and read move.  Each operation of an entry is a sequence of *)
(* seeks and reads on its handle; a step of the specification is one seek, *)
(* or the reads up to the next seek.                                       *)

\* The region file of the reader: two chunks stored raw.
CursorFile ==
    RegionFile(<<[index |-> 0, ts |-> 1001, sectors |-> 1,
                  bytes |-> Stored(3, <<10, 0, 0, 7>>)],
                 [index |-> 1, ts |-> 1002, sectors |-> 1,
                  bytes |-> Stored(3, <<10, 0, 0, 8, 8, 0>>)]>>)

\* The open file description of the reader's File.
ReaderFile == "fd"

\* File::try_clone: a handle to the same open file description.
try_clone(file) == file

\* The entries of the reader, each with its handle.
CursorEntries ==
    LET es == McaReader_entries(McaReader_open(0, 0), CursorFile).v.entries
    IN  [k \in 1..Len(es) |-> [entry |-> es[k], file |-> try_clone(ReaderFile)]]

EntryOps == {"read_header", "serialized_bytes", "data_bytes"}

CursorIdle == c_pos = <<>> /\ c_ops = <<>>

\* After entries(): the reader has read its header, the cursor of its
\* description is behind the two tables; each entry is about to start one
\* operation.
CursorInit ==
    /\ c_pos = [f \in {ReaderFile} |-> HEADER_BYTES]
    /\ \E ops \in [DOMAIN CursorEntries -> EntryOps] :
        c_ops = [k \in DOMAIN CursorEntries |->
                    [entry |-> CursorEntries[k].entry, file |-> CursorEntries[k].file,
                     op |-> ops[k], pc |-> "seek_header"]]

\* self.file.seek(SeekFrom::Start(..)): to the entry's start before the
\* header is read, and before the body is read to the start
\* (serialized_bytes) or behind the method byte (data_bytes).
CursorSeek(k) ==
    /\ c_ops[k].pc \in {"seek_header", "seek_body"}
    /\ c_pos' = [c_pos EXCEPT ![c_ops[k].file] =
                    IF c_ops[k].pc = "seek_header" \/ c_ops[k].op = "serialized_bytes"
                    THEN c_ops[k].entry.start
                    ELSE c_ops[k].entry.start + 5]
    /\ c_ops' = [c_ops EXCEPT ![k].pc =
                    IF @ = "seek_header" THEN "read_header" ELSE "read_body"]

\* The reads of read_header, from the cursor of the entry's handle: h is
\* what they return.
HeaderRead(k, h) ==
    /\ c_pos' = [c_pos EXCEPT ![c_ops[k].file] = IF h.ok THEN h.v.pos ELSE @]
    /\ c_ops' = [c_ops EXCEPT ![k] =
                    IF ~h.ok THEN [@ EXCEPT !.pc = "done"] @@ [res |-> h]
                    ELSE IF @.op = "read_header"
                    THEN [@ EXCEPT !.pc = "done"]
                            @@ [res |-> Ok([len |-> h.v.len, cm |-> h.v.cm])]
                    ELSE [@ EXCEPT !.pc = "seek_body"]
                            @@ [len |-> h.v.len, cm |-> h.v.cm]]

CursorReadHeader(k) ==
    /\ c_ops[k].pc = "read_header"
    /\ HeaderRead(k, read_header(CursorFile,
                                 [start |-> c_pos[c_ops[k].file]]))

\* take(n).read_to_end from the cursor: 4 + len bytes for serialized_bytes,
\* len - 1 bytes for data_bytes.
CursorReadBody(k) ==
    /\ c_ops[k].pc = "read_body"
    /\ LET n == IF c_ops[k].op = "serialized_bytes" THEN 4 + c_ops[k].len
                ELSE c_ops[k].len - 1
           got == Slice(CursorFile, c_pos[c_ops[k].file], n)
       IN  /\ c_pos' = [c_pos EXCEPT ![c_ops[k].file] = @ + got.len]
           /\ c_ops' = [c_ops EXCEPT ![k] =
                         [@ EXCEPT !.pc = "done"] @@ [res |-> Ok(got)]]

---------------------------------------------------------------------------
(* The specifications *)

\* The scanner on one payload.
InitScan == ScanInit /\ WriterIdle /\ Lz4Idle /\ CursorIdle /\ WorldIdle /\ overflow_checks = FALSE /\ faults = {}
NextScan == ScanStep /\ UNCHANGED <<writerVars, lz4Vars, cursorVars, overflow_checks, faults, worldVars>>
SpecScan == InitScan /\ [][NextScan]_vars

\* One McaWriter: appends, then finalize.
InitWriter == WriterInit /\ ScanIdle /\ Lz4Idle /\ CursorIdle /\ WorldIdle /\ overflow_checks = FALSE /\ faults = {}
NextWriter ==
    \/ WriterAppend /\ UNCHANGED <<scanVars, lz4Vars, cursorVars, overflow_checks, faults, worldVars>>
    \/ WriterFinalize /\ UNCHANGED <<scanVars, lz4Vars, cursorVars, overflow_checks, faults, worldVars>>
SpecWriter == InitWriter /\ [][NextWriter]_vars

\* One call of decode_lz4_blocks.
InitLz4 ==
    Lz4Init /\ ScanIdle /\ WriterIdle /\ CursorIdle /\ WorldIdle /\ overflow_checks = FALSE /\ faults = {}
NextLz4 ==
    Lz4Decode /\ UNCHANGED <<scanVars, writerVars, cursorVars, overflow_checks, faults, worldVars>>
SpecLz4 == InitLz4 /\ [][NextLz4]_vars

\* Two entries of one reader, each in one operation.
InitCursor ==
    /\ CursorInit /\ ScanIdle /\ WriterIdle /\ Lz4Idle /\ WorldIdle
    /\ overflow_checks = FALSE /\ faults = {}
NextCursor ==
    \/ \E k \in DOMAIN c_ops : CursorSeek(k)
            /\ UNCHANGED <<scanVars, writerVars, lz4Vars, overflow_checks, faults, worldVars>>
    \/ \E k \in DOMAIN c_ops : CursorReadHeader(k)
            /\ UNCHANGED <<scanVars, writerVars, lz4Vars, overflow_checks, faults, worldVars>>
    \/ \E k \in DOMAIN c_ops : CursorReadBody(k)
            /\ UNCHANGED <<scanVars, writerVars, lz4Vars, overflow_checks, faults, worldVars>>
SpecCursor == InitCursor /\ [][NextCursor]_vars

\* One call of run.
Init == RunInit /\ ScanIdle /\ WriterIdle /\ Lz4Idle /\ CursorIdle
Next ==
    \/ RunCall /\ UNCHANGED <<scanVars, writerVars, lz4Vars, cursorVars, overflow_checks, faults>>
    \/ \E d \in Dims : DimStart(d) /\ UNCHANGED <<scanVars, writerVars, lz4Vars, cursorVars, overflow_checks, faults>>
    \/ \E d \in Dims : RegionOpen(d) /\ UNCHANGED <<scanVars, writerVars, lz4Vars, cursorVars, overflow_checks, faults>>
    \/ \E d \in Dims : EntryStep(d) /\ UNCHANGED <<scanVars, writerVars, lz4Vars, cursorVars, overflow_checks, faults>>
    \/ \E d \in Dims : LoadPct(d) /\ UNCHANGED <<scanVars, writerVars, lz4Vars, cursorVars, overflow_checks, faults>>
    \/ \E d \in Dims : Report(d) /\ UNCHANGED <<scanVars, writerVars, lz4Vars, cursorVars, overflow_checks, faults>>
    \/ \E d \in Dims : RegionFinalize(d) /\ UNCHANGED <<scanVars, writerVars, lz4Vars, cursorVars, overflow_checks, faults>>
    \/ \E d \in Dims : DimDone(d) /\ UNCHANGED <<scanVars, writerVars, lz4Vars, cursorVars, overflow_checks, faults>>
    \/ \E d \in Dims : DimSkip(d) /\ UNCHANGED <<scanVars, writerVars, lz4Vars, cursorVars, overflow_checks, faults>>
    \/ RunReturn /\ UNCHANGED <<scanVars, writerVars, lz4Vars, cursorVars, overflow_checks, faults>>
Spec == Init /\ [][Next]_vars

---------------------------------------------------------------------------
(* The claims *)

\* The location word of slot i in the file on disk: its upper 24 bits and
\* its lower 8 bits.
DiskLocUpper(f, i) == BeUnsigned(SubSeq(TableWord(f, 0, i), 1, 3))
DiskLocLower(f, i) == TableWord(f, 0, i)[4]

\* The slots of a region file that are not empty: the location word names
\* a sector and a sector count.
NonEmptySlots(f) ==
    {i \in NonZeroWords(f, 0) : DiskLocUpper(f, i) # 0 /\ DiskLocLower(f, i) # 0}

\* Where the result of the run is: the output directory, or the input
\* itself when none was given.
ResultRoot == IF args.output.some THEN args.output.v ELSE "in"

\* The input file a file of the input or of the output corresponds to.
InputPath(p) == <<"in", p[2], p[3], p[4]>>

\* The region files the run has produced so far.
ProducedRegions ==
    {p \in DOMAIN files :
        /\ p[1] \in {ResultRoot, OutRoot} /\ p[3] = "region"
        /\ HasMcaExtension(p[4]) /\ InputPath(p) \in DOMAIN input0}

\* The input region file a log line is about, and the file of the result.
InputOf(ln) == input0[<<"in", ln.d, "region", ln.name>>]
ResultOf(ln, fam) == files[<<ResultRoot, ln.d, fam, ln.name>>]

\* The slot a log line is about is stored as kind k.
IsKind(ln, k) ==
    /\ k.bytes # <<>>
    /\ SliceSeq(InputOf(ln), ln.start, Len(k.bytes)) = k.bytes

\* a >= b on 64-bit values, limb by limb.
AtLeast(a, b) ==
    \/ a.h > b.h
    \/ a.h = b.h /\ a.m > b.m
    \/ a.h = b.h /\ a.m = b.m /\ a.l >= b.l

\* C1: in every state of a run, every region file under the output (and,
\* after an in-place run, under the input) has its non-empty slots among
\* the non-empty slots of the input region file of the same name.
C1_OutputSlotsSubset ==
    \A p \in ProducedRegions :
        NonEmptySlots(files[p]) \subseteq NonEmptySlots(input0[InputPath(p)])

\* The run has returned Ok and an output region file holds a slot, while
\* its input holds another slot as well that the output does not hold.
C1_Witness ==
    /\ main_pc = "ok" /\ args.output.some
    /\ \E p \in ProducedRegions :
        /\ NonEmptySlots(files[p]) # {}
        /\ NonEmptySlots(files[p]) # NonEmptySlots(input0[InputPath(p)])

\* C2: when the run has returned Ok, every entry that was written to the
\* region writer is a non-empty slot of the result, and the 4 + L bytes at
\* the slot's offset in the result equal the 4 + L bytes at the entry's
\* offset in the input, L being the length word of the input slot.
C2_KeptBytesPreserved ==
    main_pc = "ok" =>
        \A ln \in {x \in log : x.wrote} :
            LET L == BeUnsigned(SliceSeq(InputOf(ln), ln.start, 4))
            IN  /\ ln.index \in NonEmptySlots(ResultOf(ln, "region"))
                /\ Slice(ResultOf(ln, "region"),
                         DiskLocUpper(ResultOf(ln, "region"), ln.index) * SECTOR, 4 + L)
                      = Slice(InputOf(ln), ln.start, 4 + L)
                /\ Slice(InputOf(ln), ln.start, 4 + L).len = 4 + L

\* The run has returned Ok and has written a zlib slot of the input to
\* another offset of the output.
C2_Witness ==
    /\ main_pc = "ok"
    /\ \E ln \in log :
        /\ ln.wrote
        /\ \E k \in FieldKinds : k.kind = "zlib" /\ IsKind(ln, k)
        /\ DiskLocUpper(ResultOf(ln, "region"), ln.index) * SECTOR # ln.start

\* C3: when the run has returned Ok, a chunk that is not force-loaded and
\* is stored (raw, zlib, gzip or framed LZ4) with the field
\* InhabitedTime = V was kept, and is a non-empty slot of the result,
\* exactly if V >= threshold, with either value of remove_unknown.
C3_ThresholdDecides ==
    main_pc = "ok" =>
        \A ln \in log : \A k \in FieldKinds :
            (~ln.forced /\ IsKind(ln, k)) =>
                /\ ln.keep <=> AtLeast(k.v, args.inhabited_threshold)
                /\ ln.index \in NonEmptySlots(ResultOf(ln, "region"))
                      <=> AtLeast(k.v, args.inhabited_threshold)

\* The run has returned Ok and a zlib chunk whose InhabitedTime equals the
\* threshold was kept, with remove_unknown set.
C3_Witness ==
    /\ main_pc = "ok" /\ args.remove_unknown
    /\ \E ln \in log : \E k \in FieldKinds :
        /\ k.kind = "zlib" /\ IsKind(ln, k) /\ ~ln.forced
        /\ k.v = args.inhabited_threshold /\ ln.keep

\* The payload of the claim's wording, with the length byte 0x0E.
PayloadLen14(v) == <<4, 0, 14>> \o InhabitedName \o to_be_bytes_i64(v)
\* The payload with the name's own length, 13 = 0x0D.
PayloadLen13(v) == <<4, 0, 13>> \o InhabitedName \o to_be_bytes_i64(v)

\* The 16 bytes 04 00 0D "InhabitedTime" occur somewhere in data.
HasField(data) ==
    \E i \in 1..Len(data) :
        /\ i + 15 <= Len(data)
        /\ SubSeq(data, i, i + 15) = <<4, 0, 13>> \o InhabitedName

InForcedSet(ln) ==
    \E k \in 1..Len(parse_force_loaded(chunks_dat[ln.d])) :
        parse_force_loaded(chunks_dat[ln.d])[k] = <<ln.gx, ln.gz>>

\* C5 as stated: when the run has returned Ok, every chunk of an input
\* region file (a slot whose header lies within the file) whose global
\* coordinates are in the force-loaded set of its dimension is a non-empty
\* slot of the output region file, whatever its method code and payload.
C5_ForcedChunksPresent ==
    main_pc = "ok" =>
        \A ln \in log :
            (InForcedSet(ln) /\ ln.start + 5 <= InputOf(ln).len) =>
                ln.index \in NonEmptySlots(ResultOf(ln, "region"))

\* The entities or poi file of the input that belongs to a log line's
\* region file is a valid region file.
HasMirror(ln, fam) == is_valid_mca(input0, <<"in", ln.d, fam, ln.name>>)

\* The region slot of a log line was kept by the predicates.
KeptSlots(d, name) == {ln.index : ln \in {x \in log : x.d = d /\ x.name = name /\ x.keep}}

\* C6 as stated: when the run has returned Ok, for every processed region
\* file with a valid entities (poi) file of the same name, slot i of the
\* output entities (poi) file is non-empty exactly if region slot i was
\* kept and slot i of the source entities (poi) file is non-empty.
C6_MirrorSelection ==
    main_pc = "ok" =>
        \A ln \in log : \A fam \in {"entities", "poi"} :
            HasMirror(ln, fam) =>
                NonEmptySlots(ResultOf(ln, fam))
                    = KeptSlots(ln.d, ln.name)
                        \cap NonEmptySlots(input0[<<"in", ln.d, fam, ln.name>>])

\* C7 as stated: when the run has returned Ok, the non-empty slots of every
\* output entities or poi file are among the non-empty slots of the output
\* region file of the same name, also when a write to the region writer
\* failed.
C7_MirrorSubset ==
    main_pc = "ok" =>
        \A ln \in log : \A fam \in {"entities", "poi"} :
            HasMirror(ln, fam) =>
                NonEmptySlots(ResultOf(ln, fam))
                    \subseteq NonEmptySlots(ResultOf(ln, "region"))

\* The kinds of slot the InhabitedTime predicate cannot inspect: an
\* external method, an empty payload, the custom method 127, a payload
\* without the field.
UninspectableKinds ==
    {k \in OpaqueKinds : k.kind \in {"external", "empty", "custom", "customFF", "nofield"}}

\* C8 as stated: on a chunk it cannot inspect the InhabitedTime predicate
\* returns !remove_unknown, so that a chunk that is not force-loaded is
\* kept with remove_unknown = false and removed with remove_unknown = true.
C8_UnknownFollowsFlag ==
    \A ln \in log : \A k \in UninspectableKinds :
        (~ln.forced /\ IsKind(ln, k)) =>
            /\ ln.inhabited = Some(Ok(~args.remove_unknown))
            /\ ln.keep = ~args.remove_unknown

\* The kinds of slot on which the InhabitedTime predicate fails: an
\* unknown method code, a zlib or gzip stream that does not decode, a
\* framed block with a wrong checksum; and a slot header to read behind the
\* end of the file.
IsFailing(ln) ==
    \/ \E k \in FailingKinds : IsKind(ln, k)
    \/ ln.start + 5 > InputOf(ln).len

\* The run has returned, with Ok, an error or a panic.
Returned == main_pc \in {"ok", "err", "panic"}

\* C9: a pattern's error on a chunk that is not force-loaded removes the
\* chunk and stops neither the worker nor the run; and when the run has
\* returned on an input with a chunk that is not force-loaded and on which
\* the InhabitedTime predicate fails (unknown method code, zlib, gzip or
\* framed-block data that does not decode, slot header behind the end of
\* the file), it has returned Ok, the predicate's result was an error, the
\* chunk is not in the result, with either value of remove_unknown, and
\* every entry of the region file has been decided.
C9_FailureRemovesAndGoesOn ==
    /\ \A ln \in log :
          (~ln.forced /\ ~ln.inhabited.v.ok) =>
              /\ ~ln.keep /\ ~ln.wrote
              /\ wk[ln.d].pc # "panicked" /\ main_pc \notin {"err", "panic"}
    /\ Returned =>
          \A ln \in log :
              (~ln.forced /\ IsFailing(ln)) =>
                  /\ main_pc = "ok"
                  /\ ~ln.inhabited.v.ok /\ ~ln.keep
                  /\ ln.index \notin NonEmptySlots(ResultOf(ln, "region"))
                  /\ \A i \in NonEmptySlots(InputOf(ln)) :
                        \E x \in log : x.d = ln.d /\ x.name = ln.name /\ x.index = i

\* The run has returned Ok; the framed block of slot SlotA had a wrong
\* checksum and was removed, and the entry behind it was kept.
C9_Witness ==
    /\ main_pc = "ok" /\ ~args.remove_unknown
    /\ \E ln, x \in log :
        /\ \E k \in FailingKinds : k.kind = "lz4Bad" /\ IsKind(ln, k)
        /\ ~ln.forced /\ ~ln.keep
        /\ x.d = ln.d /\ x.name = ln.name /\ x.index > ln.index /\ x.keep /\ x.wrote

\* The appends that returned Ok.
OkAppends == {k \in 1..Len(w_log) : w_log[k].ok}

\* The appends that returned Ok went to distinct slots.
DistinctSlots ==
    \A j, k \in OkAppends : j # k => w_log[j].e.index # w_log[k].e.index

\* Slot data begins where the location word says: the word's offset is the
\* cursor the append wrote at, and the appended bytes are there.
LocOffsetRight(k) ==
    LET e == w_log[k].e IN
    /\ DiskLocUpper(w.file, e.index) * SECTOR = w_log[k].start
    /\ Slice(w.file, w_log[k].start, serialized_bytes(w_src, e).v.len)
          = serialized_bytes(w_src, e).v

\* C10 as stated: after appends to distinct slots and finalize, for every
\* slot the word's upper 24 bits times 4096 is the offset of the slot's data
\* and its lower 8 bits times 4096 is the number of bytes reserved for it,
\* for every entry size.
C10_HeaderConsistentAnySize ==
    (w_final /\ DistinctSlots) =>
        \A k \in OkAppends :
            /\ LocOffsetRight(k)
            /\ DiskLocLower(w.file, w_log[k].e.index) * SECTOR
                  = w_log[k].end - w_log[k].start

\* C10, amended: the offset part holds for every entry size; the lower 8
\* bits hold the number of reserved sectors modulo 256, so they give the
\* reserved bytes exactly when the entry needs at most 255 sectors.
C10_HeaderConsistent ==
    (w_final /\ DistinctSlots) =>
        \A k \in OkAppends :
            LET sectors == (w_log[k].end - w_log[k].start) \div SECTOR IN
            /\ LocOffsetRight(k)
            /\ (w_log[k].end - w_log[k].start) % SECTOR = 0
            /\ DiskLocLower(w.file, w_log[k].e.index) = sectors % 256
            /\ sectors <= 255 =>
                  DiskLocLower(w.file, w_log[k].e.index) * SECTOR
                      = w_log[k].end - w_log[k].start

\* Finalized, three distinct slots, an entry of 256 sectors among them and
\* an entry stored behind it.
C10_Witness ==
    /\ w_final /\ DistinctSlots
    /\ Cardinality(OkAppends) = 3
    /\ w_log[1].ok /\ w_log[1].end - w_log[1].start = 256 * SECTOR
    /\ w_log[2].ok /\ w_log[2].end - w_log[2].start = SECTOR

\* n is a whole number of sectors.
WholeSectors(n) == n % SECTOR = 0

\* C11: in every state of a writer after create and any appends, the data
\* cursor and the file size are multiples of 4096 and at least 8192, the
\* file ends at the cursor, and every stored slot starts at a sector >= 2
\* and occupies a whole number (at least one) of sectors, both where its
\* bytes were written and in the writer's tables.
C11_Alignment ==
    /\ WholeSectors(w.data_offset) /\ w.data_offset >= HEADER_BYTES
    /\ WholeSectors(w.file.len) /\ w.file.len = w.data_offset
    /\ \A k \in OkAppends :
          /\ WholeSectors(w_log[k].start) /\ w_log[k].start >= 2 * SECTOR
          /\ WholeSectors(w_log[k].end) /\ w_log[k].end > w_log[k].start
    /\ \A i \in DOMAIN w.offsets :
          /\ WholeSectors(w.offsets[i]) /\ w.offsets[i] >= 2 * SECTOR
          /\ WholeSectors(TableGet(w.sizes, i)) /\ TableGet(w.sizes, i) >= SECTOR

\* Three appends returned Ok, the first of a slot of 7 bytes, the second of
\* a slot of exactly one sector, neither after finalize.
C11_Witness ==
    /\ ~w_final /\ Len(w_log) = 3 /\ Cardinality(OkAppends) = 3
    /\ w_log[1].e.start = SrcSmall /\ w_log[2].e.start = SrcSector
    /\ w_log[2].end - w_log[2].start = SECTOR
    /\ w.data_offset > HEADER_BYTES + 2 * SECTOR

\* The sectors the location words of file f give to the slots of S.
RECURSIVE SectorsGiven(_, _)
SectorsGiven(f, S) ==
    IF S = {} THEN 0
    ELSE LET i == CHOOSE x \in S : TRUE
         IN  DiskLocLower(f, i) + SectorsGiven(f, S \ {i})

\* The non-empty slots of f lie one behind the other from sector 2 on, in
\* the order of their indexes, and the file ends with the last of them.
Packed(f) ==
    /\ \A i \in NonEmptySlots(f) :
          DiskLocUpper(f, i)
              = 2 + SectorsGiven(f, {j \in NonEmptySlots(f) : j < i})
    /\ f.len = (2 + SectorsGiven(f, NonEmptySlots(f))) * SECTOR

\* C12: when the run has returned Ok, in every region file of the result
\* the non-empty slots, in ascending order of their indexes, occupy
\* consecutive sector ranges from sector 2 on, without gap or overlap, and
\* the file ends behind the last range: a file without a kept slot is
\* exactly 8192 bytes long.
C12_Repacked ==
    main_pc = "ok" =>
        \A p \in ProducedRegions : p[1] = ResultRoot => Packed(files[p])

\* The run has returned Ok, in place; a region file of the result holds
\* one slot, at sector 2, that its input held behind a slot the run
\* removed.
C12_Witness ==
    /\ main_pc = "ok" /\ ~args.output.some
    /\ \E p \in ProducedRegions :
          /\ p[1] = ResultRoot
          /\ \E i \in NonEmptySlots(files[p]) :
                /\ NonEmptySlots(files[p]) = {i}
                /\ DiskLocUpper(files[p], i) = 2
                /\ DiskLocUpper(input0[InputPath(p)], i) > 2
                /\ \E j \in NonEmptySlots(input0[InputPath(p)]) : j < i

\* The run has returned Ok and a region file of the result holds no slot.
C12_EmptyFileReached ==
    /\ main_pc = "ok"
    /\ \E q \in ProducedRegions :
          /\ q[1] = ResultRoot /\ NonEmptySlots(input0[InputPath(q)]) # {}
          /\ NonEmptySlots(files[q]) = {} /\ files[q].len = HEADER_BYTES

\* The .mca files of family fam in the result of the run.
Produced(fam) ==
    {p \in DOMAIN files :
        /\ p[1] = ResultRoot /\ p[3] = fam
        /\ HasMcaExtension(p[4]) /\ InputPath(p) \in DOMAIN input0}

\* The slots the run appended to the writer of file p: for a region file
\* the entries whose write_entry returned Ok, for an entities or poi file
\* the slots mirrored with Ok.
AppendedSlots(p) ==
    {ln.index : ln \in {x \in log :
        /\ x.d = p[2] /\ x.name = p[4]
        /\ IF p[3] = "region" THEN x.wrote ELSE x.keep /\ x[p[3]] = "written"}}

\* C13: when the run has returned Ok, in every region, entities and poi
\* file of the result a slot that was not appended to the file's writer
\* has location word 0 and timestamp word 0, and an appended slot has a
\* location word other than 0 and the timestamp word the slot has in the
\* input file.
C13_HeaderFollowsSelection ==
    main_pc = "ok" =>
        \A fam \in Families : \A p \in Produced(fam) :
            /\ NonZeroWords(files[p], 0) = AppendedSlots(p)
            /\ NonZeroWords(files[p], SECTOR) \subseteq AppendedSlots(p)
            /\ \A i \in AppendedSlots(p) :
                  TableWord(files[p], SECTOR, i)
                      = TableWord(input0[InputPath(p)], SECTOR, i)

\* The run has returned Ok; a region file of the result holds an appended
\* slot with the input's timestamp word, which is not 0, and the input
\* holds a timestamp word other than 0 for a slot that was not appended.
C13_Witness ==
    /\ main_pc = "ok"
    /\ \E p \in Produced("region") :
          /\ \E i \in AppendedSlots(p) :
                TableWord(files[p], SECTOR, i) # <<0, 0, 0, 0>>
          /\ \E j \in NonZeroWords(input0[InputPath(p)], SECTOR) :
                /\ j \notin AppendedSlots(p)
                /\ TableWord(files[p], SECTOR, j) = <<0, 0, 0, 0>>

\* The region files of the input that run opens and processes.
ValidRegions ==
    {p \in DOMAIN input0 :
        /\ p[1] = "in" /\ p[3] = "region" /\ p[4].form = "r"
        /\ is_valid_mca(input0, p)}

\* A finalize failed for an output file of the input region file p.
FinalizeFailedOn(p) ==
    /\ wk[p[2]].pc = "failed" /\ wk[p[2]].cur.name = p[4]
    /\ \E fam \in Families : FinalizeFails(p[2], fam, p[4])

\* The input region file p was processed: each of its chunks was decided.
Processed(p) ==
    \A i \in NonEmptySlots(input0[p]) :
        \E x \in log : x.d = p[2] /\ x.name = p[4] /\ x.index = i

\* C14 as stated: when the run has returned after a finalize failed for a
\* region, entities or poi writer of one region file, it has returned Ok,
\* and the other region files of the dimension and of the other dimensions
\* have been processed.
C14_FinalizeFailureLocal ==
    Returned =>
        \A p \in ValidRegions :
            FinalizeFailedOn(p) =>
                /\ main_pc = "ok"
                /\ \A q \in ValidRegions \ {p} : Processed(q)

\* What the code does: the entities writer's finalize failed, run has
\* returned the error, another region file of the dimension was not
\* processed and the other dimension was never taken.
C14_RunAborted ==
    /\ main_pc = "err"
    /\ \E p \in ValidRegions :
        /\ FinalizeFailedOn(p) /\ FinalizeFails(p[2], "entities", p[4])
        /\ \E q \in ValidRegions \ {p} : q[2] = p[2] /\ ~Processed(q)
        /\ \E d \in tasks : wk[d].pc = "skipped"

\* The result holds a region file for the input region file p, and it has
\* no slot.
ZeroSlotResult(p) ==
    /\ <<ResultRoot, p[2], "region", p[4]>> \in DOMAIN files
    /\ NonEmptySlots(files[<<ResultRoot, p[2], "region", p[4]>>]) = {}

\* C15 as stated: when the location table of an input region file cannot be
\* read, the run returns an error; it does not return Ok with a region file
\* without slots for that input.
C15_UnreadableTableAborts ==
    Returned =>
        \A p \in ValidRegions :
            HeaderUnreadable(p) =>
                /\ main_pc = "err"
                /\ ~(main_pc = "ok" /\ ZeroSlotResult(p))

\* What the code does: the header of a region file with chunks could not
\* be read, and the in-place run has returned Ok with the file replaced by
\* one without slots, while the other region files were processed.
C15_EmptiedAndOk ==
    /\ main_pc = "ok" /\ ~args.output.some
    /\ \E p \in ValidRegions :
        /\ HeaderUnreadable(p) /\ NonEmptySlots(input0[p]) # {}
        /\ ZeroSlotResult(p) /\ files[p].len = HEADER_BYTES
        /\ \A q \in ValidRegions \ {p} : Processed(q)

\* run is called with an input that is no directory, or with an output
\* directory that exists and is not empty.
BadCall ==
    \/ <<"in">> \notin dirs
    \/ args.output.some /\ <<args.output.v>> \in dirs
                        /\ DirNonEmpty(files, dirs, args.output.v)

\* Nothing was done: no worker has left its idle state, which opens the
\* readers and writers, no dimension was found, the files are those of the
\* input, the counters are 0 and nothing was printed or decided.
Untouched ==
    /\ files = input0 /\ tasks = {} /\ total_chunks = 0
    /\ \A d \in Dims : wk[d] = IdleWorker
    /\ processed_regions = 0 /\ processed_chunks = 0 /\ removed_total = 0
    /\ last_pct = 0 /\ printed = <<>> /\ log = {}

\* C16: a call with an input that is no directory, or with an output
\* directory that exists and is not empty, returns an error in its first
\* step, which changes no file, no directory, no worker and no counter;
\* and a run that has returned an error without finding a dimension has
\* left everything untouched.
C16_BadCallRejected ==
    /\ [][(main_pc = "call" /\ BadCall) =>
            /\ main_pc' = "err"
            /\ UNCHANGED <<files, dirs, tasks, total_chunks, wk, counterVars, log>>]_vars
    /\ []((main_pc = "err" /\ tasks = {}) => Untouched)

\* The call with an output directory that holds a file has returned its
\* error.
C16_Witness ==
    /\ main_pc = "err" /\ <<"in">> \in dirs /\ BadCall /\ Untouched
    /\ \E q \in DOMAIN files : q[1] = args.output.v

\* The call with an input that is no directory has returned its error.
C16_NoInputRejected == main_pc = "err" /\ <<"in">> \notin dirs /\ Untouched

\* The .mca files in the region directories of the input that are shorter
\* than a header.
TinyRegions ==
    {p \in DOMAIN input0 :
        /\ p[1] = "in" /\ p[3] = "region" /\ HasMcaExtension(p[4])
        /\ input0[p].len < HEADER_BYTES}

\* C17: for a .mca file of a region directory that is shorter than 8192
\* bytes no worker ever has a reader or writer open, no file of its name
\* is ever written to the output's region, entities or poi directory, and
\* no chunk is ever decided; a run without I/O error returns Ok, and then
\* the result holds no file of that name, the region files that are long
\* enough have been processed, and the counters count their chunks and
\* them only.
C17_TinySkipped ==
    \A p \in TinyRegions :
        /\ \A fam \in Families : <<OutRoot, p[2], fam, p[4]>> \notin DOMAIN files
        /\ wk[p[2]].cur.open => wk[p[2]].cur.name # p[4]
        /\ \A x \in log : ~(x.d = p[2] /\ x.name = p[4])
        /\ (Returned /\ faults = {}) => main_pc = "ok"
        /\ (main_pc = "ok" /\ faults = {}) =>
              /\ \A fam \in Families : <<ResultRoot, p[2], fam, p[4]>> \notin DOMAIN files
              /\ \A q \in ValidRegions : Processed(q)
              /\ processed_chunks = Cardinality(log)
              /\ total_chunks = Cardinality(log)
              /\ processed_regions = Cardinality(ValidRegions)

\* A run with an output directory has returned Ok: the input holds a
\* region file of 4096 bytes and an entities file of its name, the output
\* holds neither, and it holds the other region file of the dimension.
C17_Witness ==
    /\ main_pc = "ok" /\ args.output.some
    /\ \E p \in TinyRegions :
        /\ input0[p].len = SECTOR
        /\ is_valid_mca(input0, <<"in", p[2], "entities", p[4]>>)
        /\ \A fam \in Families : <<"out", p[2], fam, p[4]>> \notin DOMAIN files
        /\ \E q \in ValidRegions :
            q[2] = p[2] /\ <<"out", q[2], "region", q[4]>> \in DOMAIN files

\* The names of the .mca files of directory <<root, d, fam>> on disk fs.
McaNames(fs, root, d, fam) ==
    {p[4] : p \in {q \in FilesIn(fs, root, d, fam) : HasMcaExtension(q[4])}}

\* C18: the step in which an in-place run returns Ok leaves, in every
\* directory region, entities or poi of a dimension that the run produced
\* in its temporary directory, exactly the .mca files the run produced
\* there, with the bytes it produced; and when an in-place run has
\* returned Ok no file and no directory of the temporary directory exists.
C18_InPlaceMirror ==
    /\ [][(main_pc' = "ok" /\ ~args.output.some) =>
            \A d \in tasks : \A fam \in Families :
                <<OutRoot, d, fam>> \in dirs =>
                    /\ McaNames(files', "in", d, fam) = McaNames(files, OutRoot, d, fam)
                    /\ \A n \in McaNames(files, OutRoot, d, fam) :
                          files'[<<"in", d, fam, n>>] = files[<<OutRoot, d, fam, n>>]]_vars
    /\ []((main_pc = "ok" /\ ~args.output.some) =>
            /\ \A p \in DOMAIN files : p[1] # OutRoot
            /\ \A q \in dirs : q[1] # OutRoot)

\* An in-place run has returned Ok: an input .mca file that was too short
\* to be processed is gone, a region file was replaced by a shorter one, a
\* file that is no .mca file is still there.
C18_Witness ==
    /\ main_pc = "ok" /\ ~args.output.some
    /\ \E p \in DOMAIN input0 :
        HasMcaExtension(p[4]) /\ input0[p].len < HEADER_BYTES /\ p \notin DOMAIN files
    /\ \E q \in ValidRegions : q \in DOMAIN files /\ files[q].len < input0[q].len
    /\ \E o \in DOMAIN files : ~HasMcaExtension(o[4]) /\ files[o] = input0[o]

\* C19 as stated: the frame of a payload decodes to the payload, and the
\* frame with a byte of its checksum or of its block changed fails with a
\* checksum mismatch.
C19_RoundTripAndTamper ==
    lz4_res.done =>
        /\ lz4_case.part = "none" => lz4_res.res = Ok(lz4_case.payload)
        /\ lz4_case.part \in {"checksum", "body"} =>
              lz4_res.res = Err("LZ4 checksum mismatch")

\* C19 amended: the frame of a payload decodes to the payload; with a byte
\* of the checksum changed the decoder fails with a checksum mismatch; with
\* a byte of the block changed it returns Ok only with bytes that have the
\* checksum of the payload, and otherwise fails, a raw block with a
\* checksum mismatch.
C19_RoundTripAndChecksum ==
    lz4_res.done =>
        /\ lz4_case.part = "none" => lz4_res.res = Ok(lz4_case.payload)
        /\ lz4_case.part = "checksum" => lz4_res.res = Err("LZ4 checksum mismatch")
        /\ lz4_case.part = "body" =>
              IF lz4_res.res.ok
              THEN lz4_checksum(lz4_res.res.v) = lz4_checksum(lz4_case.payload)
              ELSE lz4_case.token = 16 => lz4_res.res = Err("LZ4 checksum mismatch")

\* The compressed frame of a payload of three bytes was decoded with its
\* last checksum byte changed.
C19_Witness ==
    /\ lz4_res.done /\ lz4_case.part = "checksum" /\ lz4_case.token = 32
    /\ Len(lz4_case.payload) = 3
    /\ lz4_case.stream[LZ4_HEADER_LEN] # Encoded(lz4_case.payload, 32)[LZ4_HEADER_LEN]
    /\ ~lz4_res.res.ok

\* A raw block with one byte changed was decoded to other bytes than the
\* payload.
C19_ChangeAccepted ==
    /\ lz4_res.done /\ lz4_case.part = "body" /\ lz4_case.token = 16
    /\ lz4_res.res.ok /\ lz4_res.res.v # lz4_case.payload

\* A compressed block with the token of its only sequence changed was
\* decoded to the payload.
C19_TokenBitsIgnored ==
    /\ lz4_res.done /\ lz4_case.part = "body" /\ lz4_case.token = 32
    /\ lz4_case.stream[LZ4_HEADER_LEN + 1]
          # Encoded(lz4_case.payload, 32)[LZ4_HEADER_LEN + 1]
    /\ lz4_res.res = Ok(lz4_case.payload)

\* A compressed block with one byte changed failed in the decompressor.
C19_DecompressorFailed ==
    /\ lz4_res.done /\ lz4_case.part = "body" /\ lz4_case.token = 32
    /\ ~lz4_res.res.ok /\ lz4_res.res # Err("LZ4 checksum mismatch")

\* C20: for every entry decided, the list of force-loaded chunks is asked
\* first and answers whether the chunk is in it; if it is, the chunk is
\* kept and the InhabitedTime pattern is not asked, so that it reads no
\* payload; if it is not, the InhabitedTime pattern is asked and its answer
\* decides.
C20_ShortCircuit ==
    \A ln \in log :
        /\ ln.forced <=> InForcedSet(ln)
        /\ ln.forced => (ln.inhabited = None /\ ln.keep)
        /\ ~ln.forced =>
              /\ ln.inhabited.some
              /\ ln.keep <=> (ln.inhabited.v.ok /\ ln.inhabited.v.v)

\* A force-loaded chunk on whose payload the InhabitedTime pattern fails
\* was kept without the pattern being asked, and for another chunk of the
\* region file, which is not force-loaded, the pattern was asked.
C20_Witness ==
    \E ln, x \in log :
        /\ ln.forced /\ ln.inhabited = None /\ ln.keep
        /\ \E k \in FailingKinds : IsKind(ln, k)
        /\ x.d = ln.d /\ x.name = ln.name /\ ~x.forced /\ x.inhabited.some

\* The percent values printed so far, in order.
PercentLines == SelectSeq(printed, LAMBDA x : "pct" \in DOMAIN x)

\* C21 as stated: in every step of a run, under every interleaving of the
\* workers, processed_chunks, removed_total, processed_regions and last_pct
\* do not decrease, and no percent is printed after a larger one.
C21_CountersMonotonic ==
    /\ [][/\ processed_chunks' >= processed_chunks
          /\ removed_total' >= removed_total
          /\ processed_regions' >= processed_regions
          /\ last_pct' >= last_pct]_vars
    /\ [](\A i, j \in 1..Len(PercentLines) :
            i < j => PercentLines[i].pct <= PercentLines[j].pct)

\* The three counters alone do not decrease.
C21_FetchAddMonotonic ==
    [][/\ processed_chunks' >= processed_chunks
       /\ removed_total' >= removed_total
       /\ processed_regions' >= processed_regions]_vars

\* What the code does: two workers have loaded last_pct before either
\* stored it, and the smaller percent was stored and printed after the
\* larger one.
C21_PercentWentBack ==
    /\ \E i, j \in 1..Len(PercentLines) :
        /\ i < j /\ PercentLines[i].pct > PercentLines[j].pct
        /\ PercentLines[i].d # PercentLines[j].d
        /\ last_pct = PercentLines[j].pct

\* What the operation of entry k returns when no other operation runs
\* between its steps.
AloneResult(k) ==
    LET e == c_ops[k].entry
        h == read_header(CursorFile, e)
    IN  IF c_ops[k].op = "read_header" THEN Ok([len |-> h.v.len, cm |-> h.v.cm])
        ELSE IF c_ops[k].op = "serialized_bytes" THEN serialized_bytes(CursorFile, e)
        ELSE Ok(FromSeq(data_bytes(CursorFile, e).v.data))

\* C22 as stated: however the seeks and reads of the operations of two
\* entries of one reader interleave, each operation returns what it returns
\* alone.
C22_IndependentCursors ==
    \A k \in DOMAIN c_ops :
        c_ops[k].pc = "done" => c_ops[k].res = AloneResult(k)

\* What the code does: serialized_bytes of the first entry has returned the
\* bytes of the second entry, whose seek came between its seek and its
\* read.
C22_ReadOthersBytes ==
    /\ c_ops[1].pc = "done" /\ c_ops[1].op = "serialized_bytes"
    /\ c_ops[1].res = serialized_bytes(CursorFile, c_ops[2].entry)
    /\ c_ops[1].res # AloneResult(1)

\* Operations that run one after the other return what they return alone.
C22_SequentialRight ==
    \A k \in DOMAIN c_ops :
        (c_ops[k].pc = "done" /\ \A j \in DOMAIN c_ops \ {k} :
                                    c_ops[j].pc = "seek_header")
            => c_ops[k].res = AloneResult(k)

\* C23 as stated: once finalize has returned, no call of write_entry is
\* accepted: none returns Ok, and none changes the file.
C23_ClosedAfterFinalize ==
    [][(w_final /\ Len(w_log') > Len(w_log)) =>
            /\ ~w_log'[Len(w_log')].ok
            /\ w'.file = w.file]_vars

\* What the code does: an entry was appended after finalize; its bytes are
\* in the data region of the file, the tables on disk are those finalize
\* wrote and have no word for its slot.
C23_StaleTables ==
    /\ ~w_final /\ NonZeroWords(w.file, 0) # {}
    /\ \E k \in OkAppends :
        /\ k = Len(w_log)
        /\ w_log[k].e.index \notin NonZeroWords(w.file, 0)
        /\ w_log[k].e.index \notin NonZeroWords(w.file, SECTOR)
        /\ Slice(w.file, w_log[k].start, serialized_bytes(w_src, w_log[k].e).v.len)
              = serialized_bytes(w_src, w_log[k].e).v

\* The declared decompressed length of the stream of the case: bytes 13..16
\* of the frame, little-endian.
DeclaredLen == LeUnsigned(SubSeq(lz4_case.stream, LZ4_HEADER_LEN - 7, LZ4_HEADER_LEN - 4))

\* C24 as stated: a raw frame whose declared decompressed length differs
\* from the length of its block does not decode, although its checksum is
\* that of the block.
C24_RawLengthChecked ==
    (lz4_res.done /\ lz4_case.token = 16 /\ lz4_case.part = "length") =>
        ~lz4_res.res.ok

\* What the code does: a raw frame of a block of three bytes that declares
\* another decompressed length was decoded to the block.
C24_RawLengthIgnored ==
    /\ lz4_res.done /\ lz4_case.token = 16 /\ lz4_case.part = "length"
    /\ Len(lz4_case.payload) = 3 /\ DeclaredLen # 3
    /\ lz4_res.res = Ok(lz4_case.payload)

\* Every raw frame with a changed declared length decodes to its block.
C24_RawAlwaysAccepted ==
    (lz4_res.done /\ lz4_case.token = 16 /\ lz4_case.part = "length") =>
        lz4_res.res = Ok(lz4_case.payload)

\* A reader opened on the file the writer wrote, and its entries.
ReadBack == McaReader_entries(McaReader_open(0, 0), w.file)

\* The slot indices of the appends that returned Ok.
WrittenSlots == {w_log[k].e.index : k \in OkAppends}

\* The reader enumerates exactly the slots in S, in ascending order, each
\* with the timestamp of its append.
EnumeratesBack(S) ==
    /\ ReadBack.ok
    /\ LET es == ReadBack.v.entries IN
       /\ [j \in 1..Len(es) |-> es[j].index] = Ascending(S)
       /\ \A k \in OkAppends : \A j \in 1..Len(es) :
             es[j].index = w_log[k].e.index => es[j].modified = w_log[k].e.modified

\* The serialized bytes of the appended entry of append k, and those of the
\* entry the reader gives for its slot (where it gives one).
AppendedBytes(k) == serialized_bytes(w_src, w_log[k].e)
BytesBack(k) ==
    {serialized_bytes(w.file, ReadBack.v.entries[j]) :
        j \in {i \in 1..Len(ReadBack.v.entries) :
                   ReadBack.v.entries[i].index = w_log[k].e.index}}

\* C25 as stated: after appends to distinct slots and finalize, a reader
\* opened on the written file enumerates exactly the appended slots, in
\* ascending order, each with the appended timestamp and serialized bytes,
\* for every entry size, 256 sectors included.
C25_RoundTripAnySize ==
    (w_final /\ DistinctSlots) =>
        /\ EnumeratesBack(WrittenSlots)
        /\ \A k \in OkAppends : BytesBack(k) = {AppendedBytes(k)}

\* The appends whose padded size is a multiple of 256 sectors.
Wrapped == {k \in OkAppends : ((w_log[k].end - w_log[k].start) \div SECTOR) % 256 = 0}

\* The appends of an entry whose source slot ends before its declared
\* length.
CutShort == {k \in OkAppends : AppendedBytes(k).v.len < 4 + read_header(w_src, w_log[k].e).v.len}

\* What the code does: the reader enumerates the appended slots except those
\* whose padded size is a multiple of 256 sectors, with the appended
\* timestamps; the bytes it gives begin with the appended bytes, and are the
\* appended bytes when the source slot was whole.
C25_RoundTripButWrapped ==
    (w_final /\ DistinctSlots) =>
        /\ EnumeratesBack(WrittenSlots \ {w_log[k].e.index : k \in Wrapped})
        /\ \A k \in OkAppends \ Wrapped : \A b \in BytesBack(k) :
              /\ b.ok
              /\ Slice(b.v, 0, AppendedBytes(k).v.len) = AppendedBytes(k).v
              /\ k \notin CutShort => b = AppendedBytes(k)

\* Finalized, an entry of 256 sectors appended to slot 1023 and an entry of
\* one sector behind it; the reader enumerates the second only.
C25_EntryLost ==
    /\ w_final /\ DistinctSlots
    /\ Len(w_log) = 2 /\ OkAppends = {1, 2}
    /\ w_log[1].end - w_log[1].start = 256 * SECTOR
    /\ w_log[1].e.index = SLOTS - 1
    /\ ReadBack.ok /\ Len(ReadBack.v.entries) = 1
    /\ ReadBack.v.entries[1].index = w_log[2].e.index

\* Finalized, one append, of the entry whose source slot is cut short; the
\* reader gives more bytes for it than were appended.
C25_PaddingReadBack ==
    /\ w_final /\ OkAppends = {1} /\ CutShort = {1}
    /\ \E b \in BytesBack(1) : b.ok /\ b.v.len > AppendedBytes(1).v.len

\* The last line run printed: after Ok the summary, with the kept and the
\* removed total.
Summary == printed[Len(printed)]

\* The slots, as <<file of the input, index>>, that are not empty in the
\* region files of the input.
InputSlots ==
    UNION {{<<p, i>> : i \in NonEmptySlots(input0[p])} :
              p \in {q \in DOMAIN input0 :
                        q[1] = "in" /\ q[3] = "region" /\ HasMcaExtension(q[4])}}

\* The slots of the input that are not empty in the region files of the
\* result, and those the result does not hold.
ResultSlots ==
    UNION {{<<InputPath(p), i>> : i \in NonEmptySlots(files[p])} : p \in Produced("region")}
AbsentSlots == InputSlots \ ResultSlots

\* C26 as stated: when the run has returned Ok, the kept total of the
\* summary is the number of non-empty slots over all region files of the
\* result and the removed total is the number of slots of the input region
\* files that the result does not hold, also when an append of a kept entry
\* failed.
C26_TotalsMatchOutput ==
    main_pc = "ok" =>
        /\ Summary.kept = Cardinality(ResultSlots)
        /\ Summary.removed = Cardinality(AbsentSlots)

\* What the code counts: the removed total is the number of chunks the
\* patterns decided to remove, the kept total the number of the other
\* chunks the workers went through, whether their append returned Ok or not.
C26_TotalsMatchDecisions ==
    main_pc = "ok" =>
        /\ Summary.removed = Cardinality({ln \in log : ~ln.keep})
        /\ Summary.kept = Cardinality({ln \in log : ln.keep})
        /\ Cardinality(ResultSlots) = Cardinality({ln \in log : ln.wrote})

\* The run has returned Ok; the append of a kept chunk had failed: the
\* chunk is counted as kept and the result does not hold it.
C26_KeptButAbsent ==
    /\ main_pc = "ok" /\ faults = {}
    /\ \E ln \in log :
          /\ ln.keep /\ ~ln.wrote
          /\ <<InputPath(<<"in", ln.d, "region", ln.name>>), ln.index>> \in AbsentSlots
    /\ Summary.kept > Cardinality(ResultSlots)
    /\ Summary.removed < Cardinality(AbsentSlots)
====
